---------------------------- MODULE Spec2Model ----------------------------
(***************************************************************************)
(* Keyword classification of company descriptions                          *)
(* (HKIndustryAnalyzer of industry_analysis_framework.py and the           *)
(* MockIndustryClassifier of setup_and_test.py), the analyzer's data       *)
(* collection and analysis pipeline, and the slide decks of the            *)
(* IndustryAnalysisPPTGenerator of ppt_generator.py.                       *)
(*                                                                         *)
(* A text is a sequence of one-character strings, so that lower-casing,    *)
(* tokenizing, stemming and the substring tests of the scorer are computed *)
(* character by character, as the code computes them.  A score is the      *)
(* exact value of the float division matches / len, kept as a reduced      *)
(* fraction <<numerator, denominator>>.                                    *)
(***************************************************************************)
EXTENDS Integers, Sequences, FiniteSets, TLC

VARIABLES
    medical_keywords,   \* HKIndustryAnalyzer.medical_keywords
    patent_keywords,    \* HKIndustryAnalyzer.patent_keywords
    companies_data,     \* HKIndustryAnalyzer.companies_data
    medical_companies,  \* HKIndustryAnalyzer.medical_companies
    patent_companies,   \* HKIndustryAnalyzer.patent_companies
    stemmer,            \* HKIndustryAnalyzer.stemmer
    driver,             \* HKIndustryAnalyzer.driver: None, or the WebDriver it refers to
    webdrivers,         \* environment: how often each WebDriver created so far was quit
    prs,                \* IndustryAnalysisPPTGenerator.prs: the slides of its presentation
    nltk_data,          \* environment: the NLTK tokenizer and stop-word resources load
    call,               \* the last operation: its name, its arguments, what it returned
    first               \* history: the analyzer's first classify_industry call

vars == <<medical_keywords, patent_keywords, companies_data, medical_companies,
          patent_companies, stemmer, driver, webdrivers, prs, nltk_data, call,
          first>>

---------------------------------------------------------------------------
(* Characters and strings                                                  *)

UpperCase == <<"A","B","C","D","E","F","G","H","I","J","K","L","M",
               "N","O","P","Q","R","S","T","U","V","W","X","Y","Z">>
LowerCase == <<"a","b","c","d","e","f","g","h","i","j","k","l","m",
               "n","o","p","q","r","s","t","u","v","w","x","y","z">>
Letters == {LowerCase[i] : i \in 1..26} \cup {UpperCase[i] : i \in 1..26}
Digits == {"0","1","2","3","4","5","6","7","8","9"}

\* str.lower() of one character
lower_char(c) ==
    IF \E i \in 1..26 : UpperCase[i] = c
    THEN LowerCase[CHOOSE i \in 1..26 : UpperCase[i] = c]
    ELSE c

\* str.lower()
lower(text) == [i \in 1..Len(text) |-> lower_char(text[i])]

\* str.isalpha(): non-empty and every character a letter
isalpha(text) == text # <<>> /\ \A i \in 1..Len(text) : text[i] \in Letters

\* word.endswith(suffix)
endswith(word, suffix) ==
    /\ Len(word) >= Len(suffix)
    /\ SubSeq(word, Len(word) - Len(suffix) + 1, Len(word)) = suffix

\* needle in haystack (Python's substring test on strings)
contains(haystack, needle) ==
    \E i \in 0..(Len(haystack) - Len(needle)) :
        SubSeq(haystack, i + 1, i + Len(needle)) = needle

\* The tokens a scan of the text yields, in order, given the kind of each of
\* its characters: a maximal run of "word" characters is one token, a "solo"
\* character is a token of its own, a "pair" character is one token with the
\* character after it, and a "space" separates.
tokens_of(text, kind) ==
    LET n == Len(text)
        starts == {i \in 1..n :
                      \/ kind[i] \in {"solo", "pair"}
                      \/ kind[i] = "word" /\ (i = 1 \/ kind[i - 1] # "word")}
        end(i) == IF kind[i] = "solo" THEN i
                  ELSE IF kind[i] = "pair" THEN i + 1
                  ELSE CHOOSE j \in i..n :
                          /\ \A k \in i..j : kind[k] = "word"
                          /\ j = n \/ kind[j + 1] # "word"
        nth(k) == CHOOSE i \in starts : Cardinality({j \in starts : j < i}) = k - 1
    IN  [k \in 1..Cardinality(starts) |-> SubSeq(text, nth(k), end(nth(k)))]

\* str.split(): the maximal runs of non-whitespace characters
split(text) ==
    tokens_of(text, [i \in 1..Len(text) |->
                        IF text[i] = " " THEN "space" ELSE "word"])

---------------------------------------------------------------------------
(* nltk.stem.PorterStemmer (NLTK_EXTENSIONS mode, the constructor's        *)
(* default), as self.stemmer.stem applies it.                              *)

vowels == {"a","e","i","o","u"}

irregular_forms ==
    << <<<<"s","k","y">>, <<"s","k","y">>>>,
       <<<<"s","k","i","e","s">>, <<"s","k","y">>>>,
       <<<<"d","y","i","n","g">>, <<"d","i","e">>>>,
       <<<<"l","y","i","n","g">>, <<"l","i","e">>>>,
       <<<<"t","y","i","n","g">>, <<"t","i","e">>>>,
       <<<<"n","e","w","s">>, <<"n","e","w","s">>>>,
       <<<<"i","n","n","i","n","g","s">>, <<"i","n","n","i","n","g">>>>,
       <<<<"i","n","n","i","n","g">>, <<"i","n","n","i","n","g">>>>,
       <<<<"o","u","t","i","n","g","s">>, <<"o","u","t","i","n","g">>>>,
       <<<<"o","u","t","i","n","g">>, <<"o","u","t","i","n","g">>>>,
       <<<<"c","a","n","n","i","n","g","s">>, <<"c","a","n","n","i","n","g">>>>,
       <<<<"c","a","n","n","i","n","g">>, <<"c","a","n","n","i","n","g">>>>,
       <<<<"h","o","w","e">>, <<"h","o","w","e">>>>,
       <<<<"p","r","o","c","e","e","d">>, <<"p","r","o","c","e","e","d">>>>,
       <<<<"e","x","c","e","e","d">>, <<"e","x","c","e","e","d">>>>,
       <<<<"s","u","c","c","e","e","d">>, <<"s","u","c","c","e","e","d">>>> >>

RECURSIVE is_consonant(_, _)
is_consonant(word, i) ==
    IF word[i] \in vowels THEN FALSE
    ELSE IF word[i] = "y"
         THEN IF i = 1 THEN TRUE ELSE ~is_consonant(word, i - 1)
         ELSE TRUE

\* the number of "vc" in the word's consonant/vowel pattern
measure(stem_) ==
    Cardinality({i \in 1..(Len(stem_) - 1) :
                    ~is_consonant(stem_, i) /\ is_consonant(stem_, i + 1)})

contains_vowel(stem_) == \E i \in 1..Len(stem_) : ~is_consonant(stem_, i)

ends_double_consonant(word) ==
    /\ Len(word) >= 2
    /\ word[Len(word)] = word[Len(word) - 1]
    /\ is_consonant(word, Len(word))

ends_cvc(word) ==
    \/ /\ Len(word) >= 3
       /\ is_consonant(word, Len(word) - 2)
       /\ ~is_consonant(word, Len(word) - 1)
       /\ is_consonant(word, Len(word))
       /\ word[Len(word)] \notin {"w", "x", "y"}
    \/ /\ Len(word) = 2
       /\ ~is_consonant(word, 1)
       /\ is_consonant(word, 2)

\* word without its last n characters
drop_last(word, n) == SubSeq(word, 1, Len(word) - n)

\* the condition of a rule, on the stem the rule leaves and the word it was given
rule_condition(condition, stem_, word) ==
    CASE condition = "none" -> TRUE
      [] condition = "m>0"  -> measure(stem_) > 0
      [] condition = "m>1"  -> measure(stem_) > 1
      [] condition = "logi" -> measure(drop_last(word, 3)) > 0
      [] condition = "ion"  -> /\ measure(stem_) > 1
                               /\ stem_ # <<>>
                               /\ stem_[Len(stem_)] \in {"s", "t"}
      [] condition = "y"    -> Len(stem_) > 1 /\ is_consonant(stem_, Len(stem_))
      [] condition = "ll"   -> measure(drop_last(word, 1)) > 1

\* the first rule whose suffix the word ends with decides; no later rule is tried
RECURSIVE apply_rule_list_from(_, _, _)
apply_rule_list_from(word, rules, i) ==
    IF i > Len(rules) THEN word
    ELSE IF endswith(word, rules[i].suffix)
         THEN LET stem_ == drop_last(word, Len(rules[i].suffix))
              IN  IF rule_condition(rules[i].condition, stem_, word)
                  THEN stem_ \o rules[i].replacement
                  ELSE word
         ELSE apply_rule_list_from(word, rules, i + 1)

apply_rule_list(word, rules) == apply_rule_list_from(word, rules, 1)

step1a_rules ==
    << [suffix |-> <<"s","s","e","s">>, replacement |-> <<"s","s">>, condition |-> "none"],
       [suffix |-> <<"i","e","s">>, replacement |-> <<"i">>, condition |-> "none"],
       [suffix |-> <<"s","s">>, replacement |-> <<"s","s">>, condition |-> "none"],
       [suffix |-> <<"s">>, replacement |-> <<>>, condition |-> "none"] >>

step1a(word) ==
    IF endswith(word, <<"i","e","s">>) /\ Len(word) = 4
    THEN drop_last(word, 3) \o <<"i","e">>
    ELSE apply_rule_list(word, step1a_rules)

step1b_rules ==
    << [suffix |-> <<"a","t">>, replacement |-> <<"a","t","e">>, condition |-> "none"],
       [suffix |-> <<"b","l">>, replacement |-> <<"b","l","e">>, condition |-> "none"],
       [suffix |-> <<"i","z">>, replacement |-> <<"i","z","e">>, condition |-> "none"] >>

\* what is left of a word once "ed" or "ing" has been removed from it
step1b_tail(intermediate_stem) ==
    LET last == intermediate_stem[Len(intermediate_stem)]
    IN  IF \E i \in 1..Len(step1b_rules) :
               endswith(intermediate_stem, step1b_rules[i].suffix)
        THEN apply_rule_list(intermediate_stem, step1b_rules)
        ELSE IF ends_double_consonant(intermediate_stem)
             THEN IF last \notin {"l", "s", "z"}
                  THEN drop_last(intermediate_stem, 2) \o <<last>>
                  ELSE intermediate_stem
             ELSE IF measure(intermediate_stem) = 1 /\ ends_cvc(intermediate_stem)
                  THEN intermediate_stem \o <<"e">>
                  ELSE intermediate_stem

step1b(word) ==
    IF endswith(word, <<"i","e","d">>)
    THEN IF Len(word) = 4
         THEN drop_last(word, 3) \o <<"i","e">>
         ELSE drop_last(word, 3) \o <<"i">>
    ELSE IF endswith(word, <<"e","e","d">>)
    THEN IF measure(drop_last(word, 3)) > 0
         THEN drop_last(word, 3) \o <<"e","e">>
         ELSE word
    ELSE IF endswith(word, <<"e","d">>) /\ contains_vowel(drop_last(word, 2))
    THEN step1b_tail(drop_last(word, 2))
    ELSE IF endswith(word, <<"i","n","g">>) /\ contains_vowel(drop_last(word, 3))
    THEN step1b_tail(drop_last(word, 3))
    ELSE word

step1c(word) ==
    apply_rule_list(word, << [suffix |-> <<"y">>, replacement |-> <<"i">>,
                              condition |-> "y"] >>)

step2_rules ==
    << [suffix |-> <<"a","t","i","o","n","a","l">>, replacement |-> <<"a","t","e">>, condition |-> "m>0"],
       [suffix |-> <<"t","i","o","n","a","l">>, replacement |-> <<"t","i","o","n">>, condition |-> "m>0"],
       [suffix |-> <<"e","n","c","i">>, replacement |-> <<"e","n","c","e">>, condition |-> "m>0"],
       [suffix |-> <<"a","n","c","i">>, replacement |-> <<"a","n","c","e">>, condition |-> "m>0"],
       [suffix |-> <<"i","z","e","r">>, replacement |-> <<"i","z","e">>, condition |-> "m>0"],
       [suffix |-> <<"b","l","i">>, replacement |-> <<"b","l","e">>, condition |-> "m>0"],
       [suffix |-> <<"a","l","l","i">>, replacement |-> <<"a","l">>, condition |-> "m>0"],
       [suffix |-> <<"e","n","t","l","i">>, replacement |-> <<"e","n","t">>, condition |-> "m>0"],
       [suffix |-> <<"e","l","i">>, replacement |-> <<"e">>, condition |-> "m>0"],
       [suffix |-> <<"o","u","s","l","i">>, replacement |-> <<"o","u","s">>, condition |-> "m>0"],
       [suffix |-> <<"i","z","a","t","i","o","n">>, replacement |-> <<"i","z","e">>, condition |-> "m>0"],
       [suffix |-> <<"a","t","i","o","n">>, replacement |-> <<"a","t","e">>, condition |-> "m>0"],
       [suffix |-> <<"a","t","o","r">>, replacement |-> <<"a","t","e">>, condition |-> "m>0"],
       [suffix |-> <<"a","l","i","s","m">>, replacement |-> <<"a","l">>, condition |-> "m>0"],
       [suffix |-> <<"i","v","e","n","e","s","s">>, replacement |-> <<"i","v","e">>, condition |-> "m>0"],
       [suffix |-> <<"f","u","l","n","e","s","s">>, replacement |-> <<"f","u","l">>, condition |-> "m>0"],
       [suffix |-> <<"o","u","s","n","e","s","s">>, replacement |-> <<"o","u","s">>, condition |-> "m>0"],
       [suffix |-> <<"a","l","i","t","i">>, replacement |-> <<"a","l">>, condition |-> "m>0"],
       [suffix |-> <<"i","v","i","t","i">>, replacement |-> <<"i","v","e">>, condition |-> "m>0"],
       [suffix |-> <<"b","i","l","i","t","i">>, replacement |-> <<"b","l","e">>, condition |-> "m>0"],
       [suffix |-> <<"f","u","l","l","i">>, replacement |-> <<"f","u","l">>, condition |-> "m>0"],
       [suffix |-> <<"l","o","g","i">>, replacement |-> <<"l","o","g">>, condition |-> "logi"] >>

RECURSIVE step2(_)
step2(word) ==
    IF endswith(word, <<"a","l","l","i">>) /\ measure(drop_last(word, 4)) > 0
    THEN step2(drop_last(word, 4) \o <<"a","l">>)
    ELSE apply_rule_list(word, step2_rules)

step3_rules ==
    << [suffix |-> <<"i","c","a","t","e">>, replacement |-> <<"i","c">>, condition |-> "m>0"],
       [suffix |-> <<"a","t","i","v","e">>, replacement |-> <<>>, condition |-> "m>0"],
       [suffix |-> <<"a","l","i","z","e">>, replacement |-> <<"a","l">>, condition |-> "m>0"],
       [suffix |-> <<"i","c","i","t","i">>, replacement |-> <<"i","c">>, condition |-> "m>0"],
       [suffix |-> <<"i","c","a","l">>, replacement |-> <<"i","c">>, condition |-> "m>0"],
       [suffix |-> <<"f","u","l">>, replacement |-> <<>>, condition |-> "m>0"],
       [suffix |-> <<"n","e","s","s">>, replacement |-> <<>>, condition |-> "m>0"] >>

step3(word) == apply_rule_list(word, step3_rules)

step4_rules ==
    << [suffix |-> <<"a","l">>, replacement |-> <<>>, condition |-> "m>1"],
       [suffix |-> <<"a","n","c","e">>, replacement |-> <<>>, condition |-> "m>1"],
       [suffix |-> <<"e","n","c","e">>, replacement |-> <<>>, condition |-> "m>1"],
       [suffix |-> <<"e","r">>, replacement |-> <<>>, condition |-> "m>1"],
       [suffix |-> <<"i","c">>, replacement |-> <<>>, condition |-> "m>1"],
       [suffix |-> <<"a","b","l","e">>, replacement |-> <<>>, condition |-> "m>1"],
       [suffix |-> <<"i","b","l","e">>, replacement |-> <<>>, condition |-> "m>1"],
       [suffix |-> <<"a","n","t">>, replacement |-> <<>>, condition |-> "m>1"],
       [suffix |-> <<"e","m","e","n","t">>, replacement |-> <<>>, condition |-> "m>1"],
       [suffix |-> <<"m","e","n","t">>, replacement |-> <<>>, condition |-> "m>1"],
       [suffix |-> <<"e","n","t">>, replacement |-> <<>>, condition |-> "m>1"],
       [suffix |-> <<"i","o","n">>, replacement |-> <<>>, condition |-> "ion"],
       [suffix |-> <<"o","u">>, replacement |-> <<>>, condition |-> "m>1"],
       [suffix |-> <<"i","s","m">>, replacement |-> <<>>, condition |-> "m>1"],
       [suffix |-> <<"a","t","e">>, replacement |-> <<>>, condition |-> "m>1"],
       [suffix |-> <<"i","t","i">>, replacement |-> <<>>, condition |-> "m>1"],
       [suffix |-> <<"o","u","s">>, replacement |-> <<>>, condition |-> "m>1"],
       [suffix |-> <<"i","v","e">>, replacement |-> <<>>, condition |-> "m>1"],
       [suffix |-> <<"i","z","e">>, replacement |-> <<>>, condition |-> "m>1"] >>

step4(word) == apply_rule_list(word, step4_rules)

step5a(word) ==
    IF endswith(word, <<"e">>)
    THEN LET stem_ == drop_last(word, 1)
         IN  IF measure(stem_) > 1 THEN stem_
             ELSE IF measure(stem_) = 1 /\ ~ends_cvc(stem_) THEN stem_
             ELSE word
    ELSE word

step5b(word) ==
    apply_rule_list(word, << [suffix |-> <<"l","l">>, replacement |-> <<"l">>,
                              condition |-> "ll"] >>)

\* PorterStemmer.stem(word): lower-case, then the irregular forms, then steps 1a to 5b
stem(word) ==
    LET w == lower(word)
    IN  IF \E i \in 1..Len(irregular_forms) : irregular_forms[i][1] = word
        THEN irregular_forms[CHOOSE i \in 1..Len(irregular_forms) :
                                irregular_forms[i][1] = word][2]
        ELSE IF Len(word) <= 2 THEN w
        ELSE step5b(step5a(step4(step3(step2(step1c(step1b(step1a(w))))))))

---------------------------------------------------------------------------
(* nltk.tokenize.word_tokenize on the characters of the model: letters,    *)
(* digits, the space, and "," "&" "-".  The tokenizer puts spaces around a *)
(* comma that no digit follows, around every "&" and around every "--"     *)
(* (each substitution scanning from the left, without overlap), and the    *)
(* tokens are the maximal runs of non-space characters of the result.      *)

\* re.sub(r'([:,])([^\d])', r' \1 \2'), then re.sub(r'([:,])$', r' \1 '):
\* the comma at i gets spaces around it.  A match of the first substitution
\* takes the character after the comma with it, so the second of two commas is
\* not matched again, unless it ends the text.
RECURSIVE comma_padded(_, _)
comma_padded(text, i) ==
    /\ text[i] = ","
    /\ \/ i = Len(text)
       \/ /\ text[i + 1] \notin Digits
          /\ ~(i > 1 /\ text[i - 1] = "," /\ comma_padded(text, i - 1))

\* re.sub(r'--', r' -- '): the place of the dash at i in the run of dashes it
\* is in, counted from 0; the dashes of a run pair up from the left
dash_offset(text, i) ==
    i - (CHOOSE j \in 1..i :
            /\ \A k \in j..i : text[k] = "-"
            /\ j = 1 \/ text[j - 1] # "-")

tokenizer_kind(text, i) ==
    IF text[i] = " " THEN "space"
    ELSE IF text[i] = "&" THEN "solo"               \* re.sub(r'[;@#$%&]', r' \g<0> ')
    ELSE IF text[i] = "," THEN (IF comma_padded(text, i) THEN "solo" ELSE "word")
    ELSE IF text[i] = "-"
         THEN IF dash_offset(text, i) % 2 = 1 THEN "paired"
              ELSE IF i < Len(text) /\ text[i + 1] = "-" THEN "pair"
              ELSE "word"
    ELSE "word"

word_tokenize(text) ==
    tokens_of(text, [i \in 1..Len(text) |-> tokenizer_kind(text, i)])

\* stopwords.words('english'): its purely alphabetic entries (the others
\* hold an apostrophe, which no text of the model does)
stop_words ==
    { <<"i">>, <<"m","e">>, <<"m","y">>, <<"m","y","s","e","l","f">>,
      <<"w","e">>, <<"o","u","r">>, <<"o","u","r","s">>, <<"o","u","r","s","e","l","v","e","s">>,
      <<"y","o","u">>, <<"y","o","u","r">>, <<"y","o","u","r","s">>, <<"y","o","u","r","s","e","l","f">>,
      <<"y","o","u","r","s","e","l","v","e","s">>, <<"h","e">>, <<"h","i","m">>, <<"h","i","s">>,
      <<"h","i","m","s","e","l","f">>, <<"s","h","e">>, <<"h","e","r">>, <<"h","e","r","s">>,
      <<"h","e","r","s","e","l","f">>, <<"i","t">>, <<"i","t","s">>, <<"i","t","s","e","l","f">>,
      <<"t","h","e","y">>, <<"t","h","e","m">>, <<"t","h","e","i","r">>, <<"t","h","e","i","r","s">>,
      <<"t","h","e","m","s","e","l","v","e","s">>, <<"w","h","a","t">>, <<"w","h","i","c","h">>, <<"w","h","o">>,
      <<"w","h","o","m">>, <<"t","h","i","s">>, <<"t","h","a","t">>, <<"t","h","e","s","e">>,
      <<"t","h","o","s","e">>, <<"a","m">>, <<"i","s">>, <<"a","r","e">>,
      <<"w","a","s">>, <<"w","e","r","e">>, <<"b","e">>, <<"b","e","e","n">>,
      <<"b","e","i","n","g">>, <<"h","a","v","e">>, <<"h","a","s">>, <<"h","a","d">>,
      <<"h","a","v","i","n","g">>, <<"d","o">>, <<"d","o","e","s">>, <<"d","i","d">>,
      <<"d","o","i","n","g">>, <<"a">>, <<"a","n">>, <<"t","h","e">>,
      <<"a","n","d">>, <<"b","u","t">>, <<"i","f">>, <<"o","r">>,
      <<"b","e","c","a","u","s","e">>, <<"a","s">>, <<"u","n","t","i","l">>, <<"w","h","i","l","e">>,
      <<"o","f">>, <<"a","t">>, <<"b","y">>, <<"f","o","r">>,
      <<"w","i","t","h">>, <<"a","b","o","u","t">>, <<"a","g","a","i","n","s","t">>, <<"b","e","t","w","e","e","n">>,
      <<"i","n","t","o">>, <<"t","h","r","o","u","g","h">>, <<"d","u","r","i","n","g">>, <<"b","e","f","o","r","e">>,
      <<"a","f","t","e","r">>, <<"a","b","o","v","e">>, <<"b","e","l","o","w">>, <<"t","o">>,
      <<"f","r","o","m">>, <<"u","p">>, <<"d","o","w","n">>, <<"i","n">>,
      <<"o","u","t">>, <<"o","n">>, <<"o","f","f">>, <<"o","v","e","r">>,
      <<"u","n","d","e","r">>, <<"a","g","a","i","n">>, <<"f","u","r","t","h","e","r">>, <<"t","h","e","n">>,
      <<"o","n","c","e">>, <<"h","e","r","e">>, <<"t","h","e","r","e">>, <<"w","h","e","n">>,
      <<"w","h","e","r","e">>, <<"w","h","y">>, <<"h","o","w">>, <<"a","l","l">>,
      <<"a","n","y">>, <<"b","o","t","h">>, <<"e","a","c","h">>, <<"f","e","w">>,
      <<"m","o","r","e">>, <<"m","o","s","t">>, <<"o","t","h","e","r">>, <<"s","o","m","e">>,
      <<"s","u","c","h">>, <<"n","o">>, <<"n","o","r">>, <<"n","o","t">>,
      <<"o","n","l","y">>, <<"o","w","n">>, <<"s","a","m","e">>, <<"s","o">>,
      <<"t","h","a","n">>, <<"t","o","o">>, <<"v","e","r","y">>, <<"s">>,
      <<"t">>, <<"c","a","n">>, <<"w","i","l","l">>, <<"j","u","s","t">>,
      <<"d","o","n">>, <<"s","h","o","u","l","d">>, <<"n","o","w">>, <<"d">>,
      <<"l","l">>, <<"m">>, <<"o">>, <<"r","e">>,
      <<"v","e">>, <<"y">>, <<"a","i","n">>, <<"a","r","e","n">>,
      <<"c","o","u","l","d","n">>, <<"d","i","d","n">>, <<"d","o","e","s","n">>, <<"h","a","d","n">>,
      <<"h","a","s","n">>, <<"h","a","v","e","n">>, <<"i","s","n">>, <<"m","a">>,
      <<"m","i","g","h","t","n">>, <<"m","u","s","t","n">>, <<"n","e","e","d","n">>, <<"s","h","a","n">>,
      <<"s","h","o","u","l","d","n">>, <<"w","a","s","n">>, <<"w","e","r","e","n">>, <<"w","o","n">>,
      <<"w","o","u","l","d","n">> }

---------------------------------------------------------------------------
(* Scores: the float matches / len as a reduced fraction                   *)

RECURSIVE gcd(_, _)
gcd(a, b) == IF b = 0 THEN a ELSE gcd(b, a % b)

\* n / d for d > 0
divide(n, d) == <<n \div gcd(n, d), d \div gcd(n, d)>>

greater(a, b) == a[1] * b[2] > b[1] * a[2]

\* max(a, b) of Python: b only when it is greater than a
max(a, b) == IF greater(b, a) THEN b ELSE a

Zero == divide(0, 1)                    \* the literal 0.0

\* the literal 0.3 of HKIndustryAnalyzer.classify_industry
THRESHOLD == divide(3, 10)

\* the literal 0.1 of MockIndustryClassifier.classify_industry
MOCK_THRESHOLD == divide(1, 10)

None == <<"<None>">>                    \* Python's None

---------------------------------------------------------------------------
(* HKIndustryAnalyzer                                                      *)

DefaultMedicalKeywords ==
    << <<"b","i","o","m","e","d">>,
       <<"c","l","i","n","i","c","a","l"," ","t","r","i","a","l">>,
       <<"p","h","a","r","m","a"," ","r","e","s","e","a","r","c","h">>,
       <<"b","i","o","t","e","c","h">>,
       <<"m","e","d","t","e","c","h">>,
       <<"p","h","a","r","m","a","c","e","u","t","i","c","a","l">>,
       <<"b","i","o","t","e","c","h","n","o","l","o","g","y">>,
       <<"m","e","d","i","c","a","l"," ","d","e","v","i","c","e">>,
       <<"c","l","i","n","i","c","a","l"," ","r","e","s","e","a","r","c","h">>,
       <<"d","r","u","g"," ","d","e","v","e","l","o","p","m","e","n","t">>,
       <<"v","a","c","c","i","n","e">>,
       <<"d","i","a","g","n","o","s","t","i","c">>,
       <<"t","h","e","r","a","p","e","u","t","i","c","s">>,
       <<"g","e","n","o","m","i","c","s">>,
       <<"i","m","m","u","n","o","l","o","g","y">>,
       <<"o","n","c","o","l","o","g","y">>,
       <<"c","a","r","d","i","o","l","o","g","y">>,
       <<"n","e","u","r","o","l","o","g","y">>,
       <<"d","e","r","m","a","t","o","l","o","g","y">>,
       <<"c","l","i","n","i","c","a","l"," ","s","t","u","d","i","e","s">>,
       <<"m","e","d","i","c","a","l"," ","i","n","n","o","v","a","t","i","o","n">>,
       <<"h","e","a","l","t","h"," ","t","e","c","h","n","o","l","o","g","y">>,
       <<"b","i","o","p","h","a","r","m","a">> >>

DefaultPatentKeywords ==
    << <<"p","a","t","e","n","t"," ","l","i","c","e","n","s","i","n","g">>,
       <<"I","P"," ","b","r","o","k","e","r","a","g","e">>,
       <<"t","e","c","h","n","o","l","o","g","y"," ","t","r","a","n","s","f","e","r">>,
       <<"i","n","t","e","l","l","e","c","t","u","a","l"," ","p","r","o","p","e","r","t","y">>,
       <<"p","a","t","e","n","t"," ","v","a","l","u","a","t","i","o","n">>,
       <<"I","P"," ","c","o","n","s","u","l","t","i","n","g">>,
       <<"l","i","c","e","n","s","i","n","g"," ","s","p","e","c","i","a","l","i","s","t">>,
       <<"p","a","t","e","n","t"," ","a","t","t","o","r","n","e","y">>,
       <<"I","P"," ","l","a","w">>,
       <<"p","a","t","e","n","t"," ","a","g","e","n","t">>,
       <<"t","e","c","h","n","o","l","o","g","y"," ","l","i","c","e","n","s","i","n","g">>,
       <<"I","P"," ","m","a","n","a","g","e","m","e","n","t">>,
       <<"p","a","t","e","n","t"," ","p","o","r","t","f","o","l","i","o">>,
       <<"I","P"," ","c","o","m","m","e","r","c","i","a","l","i","z","a","t","i","o","n">>,
       <<"p","a","t","e","n","t"," ","p","r","o","s","e","c","u","t","i","o","n">>,
       <<"I","P"," ","s","t","r","a","t","e","g","y">> >>

\* the test of the loop of _preprocess_text on a token
keep_token(token) ==
    isalpha(token) /\ token \notin stop_words /\ Len(token) > 2

\* the loop of _preprocess_text: the stems of the tokens it keeps, in order
processed_tokens(tokens) ==
    LET kept == SelectSeq(tokens, keep_token)
    IN  [i \in 1..Len(kept) |-> stem(kept[i])]

\* _preprocess_text(text).  When the NLTK resources cannot be loaded,
\* word_tokenize raises LookupError and the handler returns text.split().
preprocess_text(text, data) ==
    IF data
    THEN processed_tokens(word_tokenize(text))
    ELSE split(text)

\* keyword_loop without the break: every matching keyword counts
RECURSIVE keyword_loop_no_break(_, _, _)
keyword_loop_no_break(token, stemmed_keywords, j) ==
    IF j > Len(stemmed_keywords) THEN 0
    ELSE (IF \/ contains(token, stemmed_keywords[j])
             \/ contains(stemmed_keywords[j], token)
          THEN 1 ELSE 0)
             + keyword_loop_no_break(token, stemmed_keywords, j + 1)

\* keyword_loop with one of the two substring tests only
RECURSIVE keyword_loop_one_way(_, _, _)
keyword_loop_one_way(token, stemmed_keywords, j) ==
    IF j > Len(stemmed_keywords) THEN 0
    ELSE IF contains(token, stemmed_keywords[j])
         THEN 1
         ELSE keyword_loop_one_way(token, stemmed_keywords, j + 1)

\* the inner loop of _calculate_keyword_score from keyword j on: 1 (and break)
\* at the first keyword that is in the token or holds the token, 0 if none is
RECURSIVE keyword_loop(_, _, _)
keyword_loop(token, stemmed_keywords, j) ==
    IF j > Len(stemmed_keywords) THEN 0
    ELSE IF \/ contains(token, stemmed_keywords[j])
            \/ contains(stemmed_keywords[j], token)
         THEN 1
         ELSE keyword_loop(token, stemmed_keywords, j + 1)

\* token_loop whose count starts at 1
RECURSIVE token_loop_from_one(_, _, _)
token_loop_from_one(processed_text, stemmed_keywords, i) ==
    IF i > Len(processed_text) THEN 1
    ELSE keyword_loop(processed_text[i], stemmed_keywords, 1)
             + token_loop_from_one(processed_text, stemmed_keywords, i + 1)

\* the outer loop of _calculate_keyword_score from token i on: matches
RECURSIVE token_loop(_, _, _)
token_loop(processed_text, stemmed_keywords, i) ==
    IF i > Len(processed_text) THEN 0
    ELSE keyword_loop(processed_text[i], stemmed_keywords, 1)
             + token_loop(processed_text, stemmed_keywords, i + 1)

\* stemmed_keywords = [self.stemmer.stem(keyword.lower()) for keyword in keywords]
stem_keywords(keywords) ==
    [j \in 1..Len(keywords) |-> stem(lower(keywords[j]))]

\* _calculate_keyword_score without its guard: the division is made as it is
calculate_keyword_score_unguarded(processed_text, keywords) ==
    CHOOSE score \in
        {<<matches, Len(processed_text)>> :
            matches \in {token_loop(processed_text, stemmed_keywords, 1) :
                            stemmed_keywords \in {stem_keywords(keywords)}}} :
        TRUE

\* _calculate_keyword_score that divides by the number of keywords
calculate_keyword_score_per_keyword(processed_text, keywords) ==
    IF processed_text = <<>> \/ keywords = <<>>
    THEN Zero
    ELSE CHOOSE score \in
             {divide(matches, Len(keywords)) :
                 matches \in {token_loop(processed_text, stemmed_keywords, 1) :
                                 stemmed_keywords \in {stem_keywords(keywords)}}} :
             TRUE

\* _calculate_keyword_score(processed_text, keywords)
\* (a local of the code is bound through a one-element set, which has it
\* evaluated once however often it is read)
calculate_keyword_score(processed_text, keywords) ==
    IF processed_text = <<>> \/ keywords = <<>>
    THEN Zero
    ELSE CHOOSE score \in
             {divide(matches, Len(processed_text)) :
                 matches \in {token_loop(processed_text, stemmed_keywords, 1) :
                                 stemmed_keywords \in {stem_keywords(keywords)}}} :
             TRUE

\* classify_scores whose second test is on the threshold alone
classify_scores_threshold_alone(medical_score, patent_score) ==
    IF greater(medical_score, patent_score) /\ greater(medical_score, THRESHOLD)
    THEN [label |-> "medical_rd", confidence |-> medical_score]
    ELSE IF greater(patent_score, THRESHOLD)
    THEN [label |-> "patent_brokerage", confidence |-> patent_score]
    ELSE [label |-> "other", confidence |-> max(medical_score, patent_score)]

\* classify_scores with >= in place of > on the threshold
classify_scores_not_strict(medical_score, patent_score) ==
    IF greater(medical_score, patent_score) /\ ~greater(THRESHOLD, medical_score)
    THEN [label |-> "medical_rd", confidence |-> medical_score]
    ELSE IF greater(patent_score, medical_score) /\ ~greater(THRESHOLD, patent_score)
    THEN [label |-> "patent_brokerage", confidence |-> patent_score]
    ELSE [label |-> "other", confidence |-> max(medical_score, patent_score)]

\* classify_scores whose last branch returns the medical score
classify_scores_other_medical(medical_score, patent_score) ==
    IF greater(medical_score, patent_score) /\ greater(medical_score, THRESHOLD)
    THEN [label |-> "medical_rd", confidence |-> medical_score]
    ELSE IF greater(patent_score, medical_score) /\ greater(patent_score, THRESHOLD)
    THEN [label |-> "patent_brokerage", confidence |-> patent_score]
    ELSE [label |-> "other", confidence |-> medical_score]

\* classify_scores whose first test lets the medical score equal the other
classify_scores_tie_medical(medical_score, patent_score) ==
    IF ~greater(patent_score, medical_score) /\ greater(medical_score, THRESHOLD)
    THEN [label |-> "medical_rd", confidence |-> medical_score]
    ELSE IF greater(patent_score, medical_score) /\ greater(patent_score, THRESHOLD)
    THEN [label |-> "patent_brokerage", confidence |-> patent_score]
    ELSE [label |-> "other", confidence |-> max(medical_score, patent_score)]

\* the decision of classify_industry on the two scores
classify_scores(medical_score, patent_score) ==
    IF greater(medical_score, patent_score) /\ greater(medical_score, THRESHOLD)
    THEN [label |-> "medical_rd", confidence |-> medical_score]
    ELSE IF greater(patent_score, medical_score) /\ greater(patent_score, THRESHOLD)
    THEN [label |-> "patent_brokerage", confidence |-> patent_score]
    ELSE [label |-> "other", confidence |-> max(medical_score, patent_score)]

\* classify_processed that scores both categories on the medical keywords
classify_processed_one_list(mk, pk, processed_text) ==
    CHOOSE result \in
        {[label |-> decision.label, confidence |-> decision.confidence,
          medical_score |-> scores[1], patent_score |-> scores[2],
          helpers |-> <<"_preprocess_text", "_calculate_keyword_score",
                        "_calculate_keyword_score">>] :
            <<scores, decision>> \in
                {<<sc, classify_scores(sc[1], sc[2])>> :
                    sc \in {<<calculate_keyword_score(processed_text, mk),
                              calculate_keyword_score(processed_text, mk)>>}}} :
        TRUE

\* the result of classify_industry on the processed text of a description
classify_processed(mk, pk, processed_text) ==
    CHOOSE result \in
        {[label |-> decision.label, confidence |-> decision.confidence,
          medical_score |-> scores[1], patent_score |-> scores[2],
          helpers |-> <<"_preprocess_text", "_calculate_keyword_score",
                        "_calculate_keyword_score">>] :
            <<scores, decision>> \in
                {<<sc, classify_scores(sc[1], sc[2])>> :
                    sc \in {<<calculate_keyword_score(processed_text, mk),
                              calculate_keyword_score(processed_text, pk)>>}}} :
        TRUE

\* values that are neither a string nor None, written like None: those
\* Python takes as false, and those it takes as true
FalsyValues == {<<"<int 0>">>, <<"<bool False>">>, <<"<list []>">>}
TruthyValues == {<<"<int 5>">>, <<"<list ['vaccine']>">>}
NonText == FalsyValues \cup TruthyValues

\* not description
falsy(description) ==
    description = None \/ description = <<>> \/ description \in FalsyValues

\* description.lower() on a value without that method: the call ends with
\* the exception, which nothing between it and the caller catches
AttributeError == [raised |-> "AttributeError", helpers |-> <<>>]

Unknown ==
    [label |-> "unknown", confidence |-> Zero,
     medical_score |-> Zero, patent_score |-> Zero, helpers |-> <<>>]

\* classify_industry that tests "description is None" in place of "not description"
classify_industry_none_only(mk, pk, data, description) ==
    IF description = None
    THEN Unknown
    ELSE CHOOSE result \in
             {classify_processed(mk, pk, processed_text) :
                 processed_text \in {preprocess_text(lower(description), data)}} :
             TRUE

\* classify_industry that answers "unknown" when no token is left
classify_industry_unknown_without_tokens(mk, pk, data, description) ==
    IF description = None \/ description = <<>>
    THEN Unknown
    ELSE CHOOSE result \in
             {IF processed_text = <<>> THEN Unknown
              ELSE classify_processed(mk, pk, processed_text) :
                 processed_text \in {preprocess_text(lower(description), data)}} :
             TRUE

\* classify_industry(description) of an analyzer with the keyword lists mk, pk.
\* helpers lists the helper methods the call ran, in order.
classify_industry(mk, pk, data, description) ==
    IF falsy(description)
    THEN Unknown
    ELSE IF description \in NonText
    THEN AttributeError
    ELSE CHOOSE result \in
             {classify_processed(mk, pk, processed_text) :
                 processed_text \in {preprocess_text(lower(description), data)}} :
             TRUE

---------------------------------------------------------------------------
(* MockIndustryClassifier (setup_and_test.py)                              *)

MockMedicalKeywords ==
    << <<"b","i","o","m","e","d">>,
       <<"c","l","i","n","i","c","a","l">>,
       <<"p","h","a","r","m","a">>,
       <<"b","i","o","t","e","c","h">>,
       <<"m","e","d","i","c","a","l">>,
       <<"d","i","a","g","n","o","s","t","i","c">>,
       <<"t","h","e","r","a","p","e","u","t","i","c">>,
       <<"v","a","c","c","i","n","e">>,
       <<"d","r","u","g">>,
       <<"c","l","i","n","i","c","a","l"," ","t","r","i","a","l">> >>

MockPatentKeywords ==
    << <<"p","a","t","e","n","t">>,
       <<"i","n","t","e","l","l","e","c","t","u","a","l"," ","p","r","o","p","e","r","t","y">>,
       <<"i","p">>,
       <<"l","i","c","e","n","s","i","n","g">>,
       <<"t","e","c","h","n","o","l","o","g","y"," ","t","r","a","n","s","f","e","r">>,
       <<"b","r","o","k","e","r","a","g","e">>,
       <<"v","a","l","u","a","t","i","o","n">> >>

\* sum(1 for keyword in keywords if keyword in desc_lower), from keyword j on
RECURSIVE mock_matches_from(_, _, _)
mock_matches_from(keywords, desc_lower, j) ==
    IF j > Len(keywords) THEN 0
    ELSE (IF contains(desc_lower, keywords[j]) THEN 1 ELSE 0)
             + mock_matches_from(keywords, desc_lower, j + 1)

\* the decision of MockIndustryClassifier.classify_industry on the two scores
mock_classify_scores(medical_score, patent_score) ==
    IF greater(medical_score, patent_score) /\ greater(medical_score, MOCK_THRESHOLD)
    THEN [label |-> "medical_rd", confidence |-> medical_score]
    ELSE IF greater(patent_score, medical_score) /\ greater(patent_score, MOCK_THRESHOLD)
    THEN [label |-> "patent_brokerage", confidence |-> patent_score]
    ELSE [label |-> "other", confidence |-> max(medical_score, patent_score)]

\* MockIndustryClassifier.classify_industry(description)
mock_classify_industry(description) ==
    IF description = None \/ description = <<>>
    THEN Unknown
    ELSE CHOOSE result \in
             {[label |-> decision.label, confidence |-> decision.confidence,
               medical_score |-> scores[1], patent_score |-> scores[2],
               helpers |-> <<>>] :
                 <<scores, decision>> \in
                     {<<sc, mock_classify_scores(sc[1], sc[2])>> :
                         sc \in {<<divide(mock_matches_from(MockMedicalKeywords,
                                                            desc_lower, 1),
                                          Len(MockMedicalKeywords)),
                                   divide(mock_matches_from(MockPatentKeywords,
                                                            desc_lower, 1),
                                          Len(MockPatentKeywords))>> :
                                    desc_lower \in {lower(description)}}}} :
             TRUE

---------------------------------------------------------------------------
(* HKIndustryAnalyzer.analyze_market_gaps                                  *)

\* a dictionary is a function on its keys; dict.get(key, default)
get(dict, key, default) == IF key \in DOMAIN dict THEN dict[key] ELSE default

\* dict[key] = value
set_item(dict, key, value) ==
    [k \in DOMAIN dict \cup {key} |-> IF k = key THEN value ELSE dict[k]]

EmptyDict == <<>>

\* the order in which companies_data.items() yields the sources: that of the
\* keys of scraped_data, of which a dictionary may hold some only
SourceOrder ==
    <<"companies_registry", "hktdc_directory", "science_park", "patent_data">>

\* all_companies: the lists of the sources, one after the other
RECURSIVE flatten_from(_, _)
flatten_from(companies_data_, i) ==
    IF i > Len(SourceOrder) THEN <<>>
    ELSE (IF SourceOrder[i] \in DOMAIN companies_data_
          THEN companies_data_[SourceOrder[i]]
          ELSE <<>>)
             \o flatten_from(companies_data_, i + 1)

\* the text analyze_market_gaps hands to classify_industry for a company
company_text(company) ==
    get(company, "description", <<>>) \o <<" ">>
        \o get(company, "business_nature", <<>>)

\* the body of the classification loop: the company with its result attached
classify_company(mk, pk, data, company) ==
    CHOOSE classified \in
        {set_item(set_item(company, "classification", result.label),
                  "confidence", result.confidence) :
            result \in {classify_industry(mk, pk, data, company_text(company))}} :
        TRUE

\* _analyze_industry_distribution that counts a company name once
RECURSIVE analyze_industry_distribution_by_name(_, _, _)
analyze_industry_distribution_by_name(companies, i, distribution) ==
    IF i > Len(companies) THEN distribution
    ELSE LET classification == get(companies[i], "classification", "unknown")
         IN  analyze_industry_distribution_by_name(
                 companies, i + 1,
                 IF \E j \in 1..(i - 1) : companies[j].name = companies[i].name
                 THEN distribution
                 ELSE set_item(distribution, classification,
                               get(distribution, classification, 0) + 1))

\* _analyze_industry_distribution(companies), from company i on
RECURSIVE analyze_industry_distribution_from(_, _, _)
analyze_industry_distribution_from(companies, i, distribution) ==
    IF i > Len(companies) THEN distribution
    ELSE LET classification == get(companies[i], "classification", "unknown")
         IN  analyze_industry_distribution_from(
                 companies, i + 1,
                 set_item(distribution, classification,
                          get(distribution, classification, 0) + 1))

analyze_industry_distribution(companies) ==
    analyze_industry_distribution_from(companies, 1, EmptyDict)

\* _analyze_geographical_distribution that starts a location's inner mapping
\* afresh at every record
RECURSIVE analyze_geographical_distribution_afresh(_, _, _)
analyze_geographical_distribution_afresh(companies, i, distribution) ==
    IF i > Len(companies) THEN distribution
    ELSE LET location == get(companies[i], "location", "Unknown")
             classification == get(companies[i], "classification", "unknown")
         IN  analyze_geographical_distribution_afresh(
                 companies, i + 1,
                 set_item(distribution, location,
                          set_item(EmptyDict, classification, 1)))

\* _analyze_geographical_distribution(companies), from company i on
RECURSIVE analyze_geographical_distribution_from(_, _, _)
analyze_geographical_distribution_from(companies, i, distribution) ==
    IF i > Len(companies) THEN distribution
    ELSE LET location == get(companies[i], "location", "Unknown")
             classification == get(companies[i], "classification", "unknown")
             inner == get(distribution, location, EmptyDict)
         IN  analyze_geographical_distribution_from(
                 companies, i + 1,
                 set_item(distribution, location,
                          set_item(inner, classification,
                                   get(inner, classification, 0) + 1)))

analyze_geographical_distribution(companies) ==
    analyze_geographical_distribution_from(companies, 1, EmptyDict)

\* analyze_market_gaps(companies_data): the returned analysis, and the
\* dictionary it was given, whose records it changes in place
analyze_market_gaps(mk, pk, data, companies_data_) ==
    CHOOSE outcome \in
        {[companies_data |-> classified,
          analysis |->
              [industry_counts |->
                   analyze_industry_distribution(flatten_from(classified, 1)),
               geographical_distribution |->
                   analyze_geographical_distribution(flatten_from(classified, 1)),
               size_distribution |-> EmptyDict,
               barriers |-> "_identify_industry_barriers()",
               growth_potential |-> "_calculate_growth_potential()",
               recommendations |-> "_generate_recommendations(analysis)"]] :
            classified \in
                {[source \in DOMAIN companies_data_ |->
                     [i \in 1..Len(companies_data_[source]) |->
                         classify_company(mk, pk, data,
                                          companies_data_[source][i])]]}} :
        TRUE

\* _create_excel_export(companies_data, filename): the dictionary it was
\* given, whose records it tags in place once the writer is open.  When
\* pd.ExcelWriter raises, the handler logs the error and no record is touched.
create_excel_export(companies_data_, writer) ==
    IF writer
    THEN [source \in DOMAIN companies_data_ |->
             [i \in 1..Len(companies_data_[source]) |->
                 set_item(companies_data_[source][i], "data_source", source)]]
    ELSE companies_data_

\* generate_report(companies_data, analysis): the summary it returns and the
\* dictionary it was given, as its export leaves it.  The presentation and
\* the charts read the analysis only.
generate_report(companies_data_, analysis, writer) ==
    [companies_data |-> create_excel_export(companies_data_, writer),
     summary_report |-> "_generate_summary_report(analysis)"]

\* steps 2 to 4 of run_complete_analysis on the dictionary step 1 collected
run_complete_analysis(mk, pk, data, companies_data_, writer) ==
    CHOOSE results \in
        {[companies_data |->
              generate_report(gap.companies_data, gap.analysis, writer).companies_data,
          gap_analysis |-> gap.analysis,
          summary_report |->
              generate_report(gap.companies_data, gap.analysis, writer).summary_report,
          total_companies_analyzed |-> Len(flatten_from(companies_data_, 1))] :
            gap \in {analyze_market_gaps(mk, pk, data, companies_data_)}} :
        TRUE

---------------------------------------------------------------------------
(* HKIndustryAnalyzer.scrape_hk_data                                       *)

\* _generate_mock_hktdc_data(search_term, category): a record for each of the
\* first three names of the category
generate_mock_hktdc_data(search_term, category) ==
    LET base_companies ==
            [medical |-> <<"BioMed Innovations HK", "MedTech Solutions Asia",
                           "Clinical Research Partners",
                           "Hong Kong Pharmaceutical Labs",
                           "Diagnostic Technologies Ltd",
                           "Genomics Research Center">>,
             patent |-> <<"IP Strategy Consultants",
                          "Patent Licensing Specialists",
                          "Technology Transfer Hub", "Asia IP Management",
                          "Patent Brokerage Services",
                          "Innovation Licensing Group">>]
        names == get(base_companies, category, <<>>)
    IN  [i \in 1..(IF Len(names) < 3 THEN Len(names) ELSE 3) |->
            [name |-> names[i],
             description |->
                 <<"S","p","e","c","i","a","l","i","z","i","n","g"," ","i",
                   "n"," ">>
                     \o search_term
                     \o <<" ","r","e","l","a","t","e","d"," ","s","e","r",
                         "v","i","c","e","s">>,
             category |-> category,
             source |-> "hktdc",
             search_term |-> search_term]]

\* _search_hktdc_companies(search_term, category)
search_hktdc_companies(search_term, category) ==
    generate_mock_hktdc_data(search_term, category)

\* the two loops of _scrape_hktdc_directory from search term i on
RECURSIVE search_loop(_, _, _)
search_loop(searches, category, i) ==
    IF i > Len(searches) THEN <<>>
    ELSE search_hktdc_companies(searches[i], category)
             \o search_loop(searches, category, i + 1)

\* _scrape_hktdc_directory()
scrape_hktdc_directory ==
    LET medical_searches ==
            <<<<"b","i","o","t","e","c","h">>,
              <<"m","e","d","i","c","a","l"," ","d","e","v","i","c","e">>,
              <<"p","h","a","r","m","a","c","e","u","t","i","c","a","l">>,
              <<"c","l","i","n","i","c","a","l"," ","r","e","s","e","a","r",
                "c","h">>>>
        patent_searches ==
            <<<<"p","a","t","e","n","t">>,
              <<"i","n","t","e","l","l","e","c","t","u","a","l"," ","p","r",
                "o","p","e","r","t","y">>,
              <<"I","P"," ","c","o","n","s","u","l","t","i","n","g">>,
              <<"t","e","c","h","n","o","l","o","g","y"," ","t","r","a","n",
                "s","f","e","r">>>>
    IN  search_loop(medical_searches, "medical", 1)
            \o search_loop(patent_searches, "patent", 1)

\* _scrape_science_park()
scrape_science_park ==
    <<[name |-> "HKSTP Biotech Accelerator",
       location |-> "Science Park, Shatin",
       description |-> <<"I","n","c","u","b","a","t","e","s"," ","1","5",
                         "0","+"," ","m","e","d","t","e","c","h"," ","s",
                         "t","a","r","t","u","p","s"," ","f","o","c","u",
                         "s","i","n","g"," ","o","n"," ","p","r","e","c",
                         "i","s","i","o","n"," ","m","e","d","i","c","i",
                         "n","e">>,
       category |-> "medical",
       website |-> "https://www.hkstp.org",
       employees |-> "50-100",
       founded |-> "2015"],
      [name |-> "ImmunoDiagnostics Limited",
       location |-> "Science Park, Shatin",
       description |-> <<"C","O","V","I","D","-","1","9"," ","t","e","s",
                         "t"," ","k","i","t"," ","R","&","D"," ","a","n",
                         "d"," ","i","n","f","e","c","t","i","o","u","s",
                         " ","d","i","s","e","a","s","e"," ","d","i","a",
                         "g","n","o","s","t","i","c","s">>,
       category |-> "medical",
       website |-> "https://immunodiagnostics.com.hk",
       employees |-> "20-50",
       founded |-> "2018"],
      [name |-> "Cirina Limited",
       location |-> "Science Park, Shatin",
       description |-> <<"C","U","H","K"," ","s","p","i","n","-","o","f",
                         "f"," ","s","p","e","c","i","a","l","i","z","i",
                         "n","g"," ","i","n"," ","c","a","n","c","e","r",
                         " ","e","a","r","l","y"," ","d","e","t","e","c",
                         "t","i","o","n"," ","t","e","c","h","n","o","l",
                         "o","g","y">>,
       category |-> "medical",
       website |-> "https://cirina.com.hk",
       employees |-> "10-20",
       founded |-> "2019"]>>

\* _scrape_patent_data()
scrape_patent_data ==
    <<[name |-> "Rouse Hong Kong",
       location |-> "Central, Hong Kong",
       description |-> <<"I","P"," ","v","a","l","u","a","t","i","o","n",
                         " ","f","o","r"," ","m","e","d","t","e","c","h",
                         " ","p","a","t","e","n","t","s"," ","a","n","d",
                         " ","c","r","o","s","s","-","b","o","r","d","e",
                         "r"," ","l","i","c","e","n","s","i","n","g">>,
       category |-> "patent",
       website |-> "https://rouse.com",
       employees |-> "50-100",
       founded |-> "2010"],
      [name |-> "Banner Witcoff Hong Kong",
       location |-> "Wanchai, Hong Kong",
       description |-> <<"C","r","o","s","s","-","b","o","r","d","e","r",
                         " ","p","a","t","e","n","t"," ","l","i","c","e",
                         "n","s","i","n","g"," ","a","n","d"," ","I","P",
                         " ","p","o","r","t","f","o","l","i","o"," ","m",
                         "a","n","a","g","e","m","e","n","t">>,
       category |-> "patent",
       website |-> "https://bannerwitcoff.com",
       employees |-> "20-50",
       founded |-> "2012"],
      [name |-> "TechTransfer HK Limited",
       location |-> "Pokfulam, Hong Kong",
       description |-> <<"H","K","U"," ","s","u","b","s","i","d","i","a",
                         "r","y"," ","f","o","r"," ","u","n","i","v","e",
                         "r","s","i","t","y"," ","p","a","t","e","n","t",
                         " ","c","o","m","m","e","r","c","i","a","l","i",
                         "z","a","t","i","o","n">>,
       category |-> "patent",
       website |-> "https://tt.hku.hk",
       employees |-> "10-20",
       founded |-> "2008"]>>

\* _get_mock_companies_registry_data()
get_mock_companies_registry_data ==
    <<[name |-> "Hong Kong Biotechnology Research Institute",
       registration_number |-> "CR12345678",
       business_nature |-> <<"R","e","s","e","a","r","c","h"," ","a","n",
                             "d"," ","e","x","p","e","r","i","m","e","n",
                             "t","a","l"," ","d","e","v","e","l","o","p",
                             "m","e","n","t"," ","o","n"," ","b","i","o",
                             "t","e","c","h","n","o","l","o","g","y">>,
       category |-> "medical",
       location |-> "Hong Kong Island"],
      [name |-> "Asia Pacific Patent Services",
       registration_number |-> "CR87654321",
       business_nature |-> <<"I","n","t","e","l","l","e","c","t","u","a",
                             "l"," ","p","r","o","p","e","r","t","y"," ",
                             "c","o","n","s","u","l","t","i","n","g"," ",
                             "s","e","r","v","i","c","e","s">>,
       category |-> "patent",
       location |-> "Kowloon"]>>

\* scrape_hk_data that fills in the Companies Registry records, which need
\* no WebDriver, before it sets the driver up
scrape_hk_data_registry_first(driver_, webdrivers_, chrome) ==
    LET created == IF chrome THEN Append(webdrivers_, 0) ELSE webdrivers_
        self_driver == IF chrome THEN <<"WebDriver", Len(created)>> ELSE driver_
    IN  [scraped_data |->
             IF chrome
             THEN [companies_registry |-> get_mock_companies_registry_data,
                   hktdc_directory |-> scrape_hktdc_directory,
                   science_park |-> scrape_science_park,
                   patent_data |-> scrape_patent_data]
             ELSE [companies_registry |-> get_mock_companies_registry_data,
                   hktdc_directory |-> <<>>,
                   science_park |-> <<>>, patent_data |-> <<>>],
         steps |->
             IF chrome
             THEN <<"_get_mock_companies_registry_data",
                    "_scrape_hktdc_directory", "_scrape_science_park",
                    "_scrape_patent_data">>
             ELSE <<"_get_mock_companies_registry_data">>,
         logged |->
             IF chrome
             THEN <<>>
             ELSE <<"Failed to initialize WebDriver",
                    "Cannot proceed without WebDriver">>,
         driver |-> self_driver,
         webdrivers |->
             IF self_driver # None
             THEN [created EXCEPT ![self_driver[2]] = @ + 1]
             ELSE created]

\* scrape_hk_data(), on an analyzer whose driver field is driver_, with
\* webdrivers_ the WebDriver objects created so far (the i-th of them is
\* referred to as <<"WebDriver", i>>); chrome tells whether
\* webdriver.Chrome starts.  setup_selenium_driver assigns self.driver when it
\* does and leaves the field as it was when it does not; the finally clause
\* calls quit() on whatever self.driver then refers to.  The value is the
\* returned scraped_data, the collection steps performed, the errors logged,
\* and the field and the WebDriver objects afterwards.
scrape_hk_data(driver_, webdrivers_, chrome) ==
    LET created == IF chrome THEN Append(webdrivers_, 0) ELSE webdrivers_
        self_driver == IF chrome THEN <<"WebDriver", Len(created)>> ELSE driver_
    IN  [scraped_data |->
             IF chrome
             THEN [companies_registry |-> get_mock_companies_registry_data,
                   hktdc_directory |-> scrape_hktdc_directory,
                   science_park |-> scrape_science_park,
                   patent_data |-> scrape_patent_data]
             ELSE [companies_registry |-> <<>>, hktdc_directory |-> <<>>,
                   science_park |-> <<>>, patent_data |-> <<>>],
         steps |->
             IF chrome
             THEN <<"_scrape_hktdc_directory", "_scrape_science_park",
                    "_scrape_patent_data", "_get_mock_companies_registry_data">>
             ELSE <<>>,
         logged |->
             IF chrome
             THEN <<>>
             ELSE <<"Failed to initialize WebDriver",
                    "Cannot proceed without WebDriver">>,
         driver |-> self_driver,
         webdrivers |->
             IF self_driver # None
             THEN [created EXCEPT ![self_driver[2]] = @ + 1]
             ELSE created]

---------------------------------------------------------------------------
(* IndustryAnalysisPPTGenerator (ppt_generator.py).  A slide is written as *)
(* its title and the part of the results it shows; a presentation is the   *)
(* sequence of its slides.                                                 *)

\* datetime.fromisoformat(text).strftime('%B %d, %Y') on a text that starts
\* with YYYY-MM-DD
strftime_date(text) ==
    LET digits == <<"0","1","2","3","4","5","6","7","8","9">>
        value(c) == (CHOOSE n \in 1..10 : digits[n] = c) - 1
        month == 10 * value(text[6]) + value(text[7])
        names == <<"January", "February", "March", "April", "May", "June",
                   "July", "August", "September", "October", "November",
                   "December">>
    IN  <<names[month]>> \o <<" ">> \o SubSeq(text, 9, 10) \o <<",", " ">>
            \o SubSeq(text, 1, 4)

\* add_title_slide(analysis_date)
add_title_slide(prs_, analysis_date) ==
    Append(prs_, [title |-> "Hong Kong Industry Analysis Framework",
                  shows |-> analysis_date])

\* add_executive_summary(results)
add_executive_summary(prs_, results) ==
    Append(prs_, [title |-> "Executive Summary",
                  shows |-> <<results.summary.total_companies_analyzed,
                              results.summary.medical_rd_companies,
                              results.summary.patent_brokerage_companies>>])

\* add_classification_framework(results)
add_classification_framework(prs_, results) ==
    Append(prs_, [title |-> "Industry Classification Framework (PPT Framework)",
                  shows |-> results.classification_framework])

\* add_company_listings(results): a slide for each listing that is not empty
add_company_listings(prs_, results) ==
    prs_
        \o (IF results.company_listings.medical_rd # <<>>
            THEN <<[title |-> "Medical R&D Companies Identified",
                    shows |-> results.company_listings.medical_rd]>>
            ELSE <<>>)
        \o (IF results.company_listings.patent_brokerage # <<>>
            THEN <<[title |-> "Patent Brokerage Companies Identified",
                    shows |-> results.company_listings.patent_brokerage]>>
            ELSE <<>>)

\* add_market_gaps_analysis(results)
add_market_gaps_analysis(prs_, results) ==
    Append(prs_, [title |-> "Industry Gap Analysis",
                  shows |-> results.market_analysis])

\* add_opportunities_slide(results)
add_opportunities_slide(prs_, results) ==
    Append(prs_, [title |-> "Development Opportunities & Recommendations",
                  shows |-> results.market_analysis])

\* add_key_findings(results)
add_key_findings(prs_, results) ==
    Append(prs_, [title |-> "Key Findings & Critical Gaps",
                  shows |-> results.key_findings])

\* add_chart_slide(chart_path, title), called for a chart that exists
add_chart_slide(prs_, chart_path, title) ==
    Append(prs_, [title |-> title, shows |-> chart_path])

\* generate_presentation(results, output_file) on a generator whose
\* presentation is prs_, with chart_dir telling whether the directory charts
\* exists and which files it holds: the presentation as it is saved
generate_presentation(prs_, results, chart_dir) ==
    LET slides ==
            add_key_findings(
              add_opportunities_slide(
                add_market_gaps_analysis(
                  add_company_listings(
                    add_classification_framework(
                      add_executive_summary(
                        add_title_slide(
                          prs_, strftime_date(results.summary.analysis_date)),
                        results),
                      results),
                    results),
                  results),
                results),
              results)
        rd_chart ==
            IF chart_dir.exists
                   /\ "rd_expenditure_comparison.png" \in chart_dir.files
            THEN add_chart_slide(
                     slides, "charts/rd_expenditure_comparison.png",
                     "R&D Expenditure Comparison: Hong Kong vs Singapore")
            ELSE slides
    IN  IF chart_dir.exists /\ "patent_trends.png" \in chart_dir.files
        THEN add_chart_slide(
                 rd_chart, "charts/patent_trends.png",
                 "Medical R&D Patent Filings & IP Services Growth")
        ELSE rd_chart

---------------------------------------------------------------------------
(* The inputs of the model                                                 *)

MaxWords == 2       \* the longest description drawn word by word
MaxRepeat == 4      \* how often a description repeats one word
MaxPerSource == 1   \* the most records of one source
MaxTokens == 2      \* the longest token sequence handed to the scorer directly
MaxRecords == 3     \* the longest sequence of records handed to an aggregator directly
MaxBatch == 2       \* the most records of a collection classified in any order
MaxPlainWords == 2  \* the longest description drawn from the words no keyword holds
MaxDrivers == 3     \* the most WebDriver objects created
MaxQuits == 2       \* the most quit() calls one WebDriver object receives
MaxSlides == 11     \* generate_presentation starts on fewer slides than this

WordVaccine == <<"V","a","c","c","i","n","e">>   \* a keyword of the medical lists
WordPatent == <<"p","a","t","e","n","t">>   \* a keyword of the patent lists
WordTechnology == <<"t","e","c","h","n","o","l","o","g","y">>   \* in a keyword of each of the analyzer's lists
WordGoods == <<"g","o","o","d","s">>   \* in no keyword
WordAnd == <<"a","n","d">>   \* a stop-word
WordIP == <<"I","P">>   \* two letters, upper-case
WordRD == <<"R","&","D">>   \* letters around a symbol
WordCovid == <<"c","o","v","i","d","-","1","9",",">>   \* letters, a hyphen, digits and a comma
WordBiomedical == <<"B","i","o","m","e","d","i","c","a","l">>   \* holds two keywords of the mock's medical list

Vocabulary ==
    {WordVaccine, WordPatent, WordTechnology, WordGoods, WordAnd, WordIP,
     WordRD, WordCovid, WordBiomedical}

\* " ".join(words)
RECURSIVE join_from(_, _)
join_from(words, i) ==
    IF i > Len(words) THEN <<>>
    ELSE IF i = Len(words) THEN words[i]
    ELSE words[i] \o <<" ">> \o join_from(words, i + 1)

join(words) == join_from(words, 1)

repeat(word, n) == [i \in 1..n |-> word]

\* every description of at most MaxWords words of the vocabulary
ShortDescriptions ==
    {join(ws) : ws \in UNION {[1..k -> Vocabulary] : k \in 0..MaxWords}}

\* descriptions that repeat a medical, a patent and a neutral word,
\* so that the scores take the values around the thresholds
RepeatedDescriptions ==
    {join(repeat(WordVaccine, m) \o repeat(WordPatent, p)
              \o repeat(WordGoods, n)) :
        m \in 0..MaxRepeat, p \in 0..MaxRepeat, n \in 0..MaxRepeat}

Descriptions ==
    ShortDescriptions \cup RepeatedDescriptions \cup {<<" ">>, None}

\* company records: one with a name only, one whose texts are empty, one
\* described by a medical word, one whose business nature is a patent word
Companies ==
    {[name |-> "Acme"],
     [name |-> "Acme", description |-> <<>>, business_nature |-> <<>>],
     [name |-> "BioLab", description |-> WordVaccine, location |-> "Shatin"],
     [name |-> "IPCo", business_nature |-> WordPatent, location |-> "Kowloon"]}

\* the dictionaries handed to analyze_market_gaps: source -> list of records,
\* with the first two sources as keys
CompanyData ==
    [{SourceOrder[i] : i \in 1..2} ->
        UNION {[1..k -> Companies] : k \in 0..MaxPerSource}]

\* the descriptions of at most one word
OneWordDescriptions == Vocabulary \cup {<<>>, None}

\* the dictionaries that hold one record, in the first source
OneCompanyData ==
    {[source \in {SourceOrder[i] : i \in 1..2} |->
         IF source = SourceOrder[1] THEN <<company>> ELSE <<>>] :
        company \in Companies}

\* the token sequences and keyword lists handed to the scorer directly
Tokens == {<<"v","a","c","c","i","n">>, <<"p","a","t","e","n","t">>, <<"t","e","c","h","n","o","l","o","g">>, <<"g","o","o","d">>, <<"i","p">>}

TokenSequences == UNION {[1..k -> Tokens] : k \in 0..MaxTokens}

KeywordLists ==
    {<<>>, DefaultMedicalKeywords, DefaultPatentKeywords,
     <<<<"I","P"," ","l","a","w">>, <<"v","a","c","c","i","n","e">>>>}

\* the keyword lists an analyzer runs with: those of the constructor, and the
\* same with one list emptied
KeywordConfigs ==
    {<<DefaultMedicalKeywords, DefaultPatentKeywords>>,
     <<<<>>, DefaultPatentKeywords>>,
     <<DefaultMedicalKeywords, <<>>>>}

---------------------------------------------------------------------------
(* The state machine                                                       *)

Init ==
    /\ \E config \in KeywordConfigs :
          /\ medical_keywords = config[1]
          /\ patent_keywords = config[2]
    /\ companies_data = <<>>
    /\ medical_companies = <<>>
    /\ patent_companies = <<>>
    /\ stemmer = "PorterStemmer"
    /\ driver = None
    /\ webdrivers = <<>>
    /\ prs = <<>>
    /\ nltk_data \in BOOLEAN
    /\ call = [op |-> "none"]
    /\ first = [status |-> "untracked"]

\* the same, with the history of the first classify_industry call kept
InitHistory ==
    /\ \E config \in KeywordConfigs :
          /\ medical_keywords = config[1]
          /\ patent_keywords = config[2]
    /\ companies_data = <<>>
    /\ medical_companies = <<>>
    /\ patent_companies = <<>>
    /\ stemmer = "PorterStemmer"
    /\ driver = None
    /\ webdrivers = <<>>
    /\ prs = <<>>
    /\ nltk_data \in BOOLEAN
    /\ call = [op |-> "none"]
    /\ first = [status |-> "none yet"]

analyzer == <<medical_keywords, patent_keywords, companies_data,
              medical_companies, patent_companies, stemmer, driver>>

\* The caller runs one operation at a time: an operation starts when nothing
\* is pending (call.op = "none") and leaves what it returned in call.

\* the history of the first classify_industry call of the analyzer: the
\* analyzer's fields when it was made, its description and its result, and
\* whether another description has been classified since
first_after(description, result) ==
    IF first.status = "none yet"
    THEN [status |-> "recorded", analyzer |-> analyzer,
          description |-> description, result |-> result, others |-> FALSE]
    ELSE IF first.status = "recorded"
    THEN [first EXCEPT !.others = @ \/ description # first.description]
    ELSE first

\* classify_industry that keeps the words it has seen as medical keywords
ClassifyIndustryLearning(description) ==
    /\ call.op = "none"
    /\ call' = [op |-> "classify_industry",
                description |-> description,
                result |-> classify_industry(medical_keywords, patent_keywords,
                                             nltk_data, description)]
    /\ first' = first_after(description, call'.result)
    /\ medical_keywords' =
           IF description = None \/ description = <<>>
           THEN medical_keywords
           ELSE Append(medical_keywords, description)
    /\ UNCHANGED <<patent_keywords, companies_data, medical_companies,
                   patent_companies, stemmer, driver, webdrivers, prs, nltk_data>>

\* analyzer.classify_industry(description)
ClassifyIndustry(description) ==
    /\ call.op = "none"
    /\ call' = [op |-> "classify_industry",
                description |-> description,
                result |-> classify_industry(medical_keywords, patent_keywords,
                                             nltk_data, description)]
    /\ first' = first_after(description, call'.result)
    /\ UNCHANGED <<analyzer, webdrivers, prs, nltk_data>>

\* analyzer._calculate_keyword_score(processed_text, keywords)
CalculateKeywordScore(processed_text, keywords) ==
    /\ call.op = "none"
    /\ call' = [op |-> "_calculate_keyword_score",
                processed_text |-> processed_text,
                keywords |-> keywords,
                result |-> calculate_keyword_score(processed_text, keywords)]
    /\ UNCHANGED <<analyzer, webdrivers, prs, nltk_data, first>>

\* classifier.classify_industry(description) on a MockIndustryClassifier
MockClassifyIndustry(description) ==
    /\ call.op = "none"
    /\ call' = [op |-> "mock_classify_industry",
                description |-> description,
                result |-> mock_classify_industry(description)]
    /\ UNCHANGED <<analyzer, webdrivers, prs, nltk_data, first>>

\* analyzer.analyze_market_gaps(companies_data)
AnalyzeMarketGaps(companies_data_) ==
    /\ call.op = "none"
    /\ call' = [op |-> "analyze_market_gaps",
                argument |-> companies_data_,
                result |-> analyze_market_gaps(medical_keywords, patent_keywords,
                                               nltk_data, companies_data_)]
    /\ UNCHANGED <<analyzer, webdrivers, prs, nltk_data, first>>

\* the caller is done with what the last operation returned
Discard ==
    /\ call.op # "none"
    /\ call' = [op |-> "none"]
    /\ UNCHANGED <<analyzer, webdrivers, prs, nltk_data, first>>

Next ==
    \/ \E description \in Descriptions : ClassifyIndustry(description)
    \/ \E description \in Descriptions : MockClassifyIndustry(description)
    \/ \E companies_data_ \in CompanyData : AnalyzeMarketGaps(companies_data_)
    \/ \E processed_text \in TokenSequences, keywords \in KeywordLists :
           CalculateKeywordScore(processed_text, keywords)
    \/ Discard

Spec == Init /\ [][Next]_vars

\* calls on one analyzer, one after the other, the first classification kept
NextHistory ==
    \/ \E description \in OneWordDescriptions : ClassifyIndustry(description)
    \/ \E companies_data_ \in OneCompanyData : AnalyzeMarketGaps(companies_data_)
    \/ Discard

SpecHistory == InitHistory /\ [][NextHistory]_vars

\* the texts handed to _preprocess_text: descriptions in lower case, as
\* classify_industry passes them, the empty text and a lone comma
NormalizerTexts ==
    {lower(description) : description \in ShortDescriptions}
        \cup {<<>>, <<" ">>, <<",">>}

\* analyzer._preprocess_text(text)
PreprocessText(text) ==
    /\ call.op = "none"
    /\ call' = [op |-> "_preprocess_text",
                text |-> text,
                result |-> preprocess_text(text, nltk_data)]
    /\ UNCHANGED <<analyzer, webdrivers, prs, nltk_data, first>>

\* calls of the normalizer alone
NextNormalizer ==
    \/ \E text \in NormalizerTexts : PreprocessText(text)
    \/ Discard

SpecNormalizer == Init /\ [][NextNormalizer]_vars

\* classified records: of one name, with and without a location, with each
\* of three labels, and one of another name at another location
ClassifiedRecords ==
    {[name |-> "Acme", classification |-> label, confidence |-> Zero] :
        label \in {"medical_rd", "patent_brokerage", "other"}}
    \cup
    {[name |-> "Acme", location |-> "Shatin", classification |-> label,
      confidence |-> Zero] :
        label \in {"medical_rd", "patent_brokerage", "other"}}
    \cup
    {[name |-> "BioLab", location |-> "Kowloon",
      classification |-> "medical_rd", confidence |-> Zero]}

ClassifiedSequences == UNION {[1..k -> ClassifiedRecords] : k \in 0..MaxRecords}

\* an analyzer as the constructor leaves it
InitDefault ==
    /\ Init
    /\ medical_keywords = DefaultMedicalKeywords
    /\ patent_keywords = DefaultPatentKeywords

\* analyzer._analyze_industry_distribution(companies)
AnalyzeIndustryDistribution(companies) ==
    /\ call.op = "none"
    /\ call' = [op |-> "_analyze_industry_distribution",
                companies |-> companies,
                result |-> analyze_industry_distribution(companies)]
    /\ UNCHANGED <<analyzer, webdrivers, prs, nltk_data, first>>

\* analyzer._analyze_geographical_distribution(companies)
AnalyzeGeographicalDistribution(companies) ==
    /\ call.op = "none"
    /\ call' = [op |-> "_analyze_geographical_distribution",
                companies |-> companies,
                result |-> analyze_geographical_distribution(companies)]
    /\ UNCHANGED <<analyzer, webdrivers, prs, nltk_data, first>>

\* calls of the two aggregation functions alone
NextAggregator ==
    \/ \E companies \in ClassifiedSequences : AnalyzeIndustryDistribution(companies)
    \/ \E companies \in ClassifiedSequences :
           AnalyzeGeographicalDistribution(companies)
    \/ Discard

SpecAggregator == InitDefault /\ [][NextAggregator]_vars

\* analyze_market_gaps that adds the counts of the run before to its own
AnalyzeMarketGapsAccumulating ==
    /\ call.op = "analyze_market_gaps"
    /\ call' =
           LET again == analyze_market_gaps(medical_keywords, patent_keywords,
                                            nltk_data, call.result.companies_data)
               earlier == call.result.analysis.industry_counts
               counts == again.analysis.industry_counts
           IN  [op |-> "analyze_market_gaps again",
                argument |-> call.result.companies_data,
                earlier |-> call.result.analysis,
                before |-> analyzer,
                result |->
                    [again EXCEPT !.analysis.industry_counts =
                        [label \in DOMAIN earlier \cup DOMAIN counts |->
                            get(earlier, label, 0) + get(counts, label, 0)]]]
    /\ UNCHANGED <<analyzer, webdrivers, prs, nltk_data, first>>

\* analyzer.analyze_market_gaps(companies_data) once more, on the dictionary
\* the run before was given and has classified in place
AnalyzeMarketGapsAgain ==
    /\ call.op = "analyze_market_gaps"
    /\ call' = [op |-> "analyze_market_gaps again",
                argument |-> call.result.companies_data,
                earlier |-> call.result.analysis,
                before |-> analyzer,
                result |-> analyze_market_gaps(medical_keywords, patent_keywords,
                                               nltk_data,
                                               call.result.companies_data)]
    /\ UNCHANGED <<analyzer, webdrivers, prs, nltk_data, first>>

\* analyzer.run_complete_analysis(), from the dictionary scrape_hk_data
\* returned; writer tells whether pd.ExcelWriter opens the export file
RunCompleteAnalysis(companies_data_, writer) ==
    /\ call.op = "none"
    /\ call' = [op |-> "run_complete_analysis",
                argument |-> companies_data_,
                result |-> run_complete_analysis(medical_keywords, patent_keywords,
                                                 nltk_data, companies_data_, writer)]
    /\ UNCHANGED <<analyzer, webdrivers, prs, nltk_data, first>>

\* analysis runs and whole pipeline runs
NextPipeline ==
    \/ \E companies_data_ \in CompanyData : AnalyzeMarketGaps(companies_data_)
    \/ AnalyzeMarketGapsAgain
    \/ \E companies_data_ \in CompanyData, writer \in BOOLEAN :
           RunCompleteAnalysis(companies_data_, writer)
    \/ Discard

SpecPipeline == InitDefault /\ [][NextPipeline]_vars

\* The loop of analyze_market_gaps taken one record at a time, in any order:
\* call.records holds all_companies, call.order the records classified so far.

\* the dictionary is flattened (lines 387-389); no record is classified yet
StartBatch(companies_data_) ==
    /\ call.op = "none"
    /\ call' = [op |-> "classifying",
                argument |-> companies_data_,
                records |-> flatten_from(companies_data_, 1),
                order |-> <<>>]
    /\ UNCHANGED <<analyzer, webdrivers, prs, nltk_data, first>>

\* the body of the classification loop (lines 394-399) on record i
ClassifyRecord(i) ==
    /\ call.op = "classifying"
    /\ i \in 1..Len(call.records)
    /\ \A k \in 1..Len(call.order) : call.order[k] # i
    /\ call' = [call EXCEPT
                    !.records[i] = classify_company(medical_keywords,
                                                    patent_keywords, nltk_data, @),
                    !.order = Append(@, i)]
    /\ UNCHANGED <<analyzer, webdrivers, prs, nltk_data, first>>

\* the aggregation that does not wait for the records still to be classified
AggregateStreaming ==
    /\ call.op = "classifying"
    /\ call' = [op |-> "classified",
                argument |-> call.argument,
                records |-> call.records,
                order |-> call.order,
                result |->
                    [industry_counts |->
                         analyze_industry_distribution(call.records),
                     geographical_distribution |->
                         analyze_geographical_distribution(call.records)]]
    /\ UNCHANGED <<analyzer, webdrivers, prs, nltk_data, first>>

\* the aggregation (lines 401-405), once the loop has classified every record
Aggregate ==
    /\ call.op = "classifying"
    /\ Len(call.order) = Len(call.records)
    /\ call' = [op |-> "classified",
                argument |-> call.argument,
                records |-> call.records,
                order |-> call.order,
                result |->
                    [industry_counts |->
                         analyze_industry_distribution(call.records),
                     geographical_distribution |->
                         analyze_geographical_distribution(call.records)]]
    /\ UNCHANGED <<analyzer, webdrivers, prs, nltk_data, first>>

\* the collections classified in any order: at most MaxBatch records, one
\* without texts, one with a medical and one with a patent text, the first
\* half of them in the first source
BatchData ==
    {[source \in {SourceOrder[i] : i \in 1..2} |->
         IF source = SourceOrder[1]
         THEN SubSeq(records, 1, (Len(records) + 1) \div 2)
         ELSE SubSeq(records, (Len(records) + 1) \div 2 + 1, Len(records))] :
        records \in UNION {[1..k -> {company \in Companies :
                                        "description" \notin DOMAIN company
                                        \/ company.description # <<>>}] :
                              k \in 0..MaxBatch}}

NextBatch ==
    \/ \E companies_data_ \in BatchData : StartBatch(companies_data_)
    \/ \E i \in 1..MaxBatch : ClassifyRecord(i)
    \/ Aggregate
    \/ Discard

SpecBatch == InitDefault /\ [][NextBatch]_vars

\* classify_industry called with texts and with values that are not text
NextNonText ==
    \/ \E description \in ShortDescriptions \cup NonText \cup {<<>>, None} :
           ClassifyIndustry(description)
    \/ Discard

SpecNonText == Init /\ [][NextNonText]_vars

\* descriptions of words that are in no keyword, and one word that is in
\* keywords of both lists of the analyzer and in none of the mock as a whole
PlainDescriptions ==
    {join(words) :
        words \in UNION {[1..k -> {WordGoods, WordAnd}] : k \in 1..MaxPlainWords}}
    \cup {WordTechnology}

\* the keyword phrases of the two categories
keywords_of(medical, patent, category) ==
    IF category = "medical" THEN medical ELSE patent

\* analyzer.classify_industry(description), then
\* analyzer.classify_industry(description + " " + keyword) for keyword j of
\* the category's list
ClassifyIndustryWithKeyword(description, category, j) ==
    /\ call.op = "none"
    /\ j \in 1..Len(keywords_of(medical_keywords, patent_keywords, category))
    /\ call' =
           [op |-> "classify_industry with keyword",
            description |-> description,
            category |-> category,
            keyword |-> keywords_of(medical_keywords, patent_keywords, category)[j],
            before |-> classify_industry(medical_keywords, patent_keywords,
                                         nltk_data, description),
            after |-> classify_industry(
                          medical_keywords, patent_keywords, nltk_data,
                          description \o <<" ">> \o
                              keywords_of(medical_keywords, patent_keywords,
                                          category)[j])]
    /\ UNCHANGED <<analyzer, webdrivers, prs, nltk_data, first>>

\* the same two calls on a MockIndustryClassifier
MockClassifyIndustryWithKeyword(description, category, j) ==
    /\ call.op = "none"
    /\ j \in 1..Len(keywords_of(MockMedicalKeywords, MockPatentKeywords, category))
    /\ call' =
           [op |-> "mock_classify_industry with keyword",
            description |-> description,
            category |-> category,
            keyword |-> keywords_of(MockMedicalKeywords, MockPatentKeywords,
                                    category)[j],
            before |-> mock_classify_industry(description),
            after |-> mock_classify_industry(
                          description \o <<" ">> \o
                              keywords_of(MockMedicalKeywords, MockPatentKeywords,
                                          category)[j])]
    /\ UNCHANGED <<analyzer, webdrivers, prs, nltk_data, first>>

NextKeyword ==
    \/ \E description \in PlainDescriptions, category \in {"medical", "patent"},
          j \in 1..Len(DefaultMedicalKeywords) :
           ClassifyIndustryWithKeyword(description, category, j)
    \/ \E description \in PlainDescriptions, category \in {"medical", "patent"},
          j \in 1..Len(MockMedicalKeywords) :
           MockClassifyIndustryWithKeyword(description, category, j)
    \/ Discard

SpecKeyword == InitDefault /\ [][NextKeyword]_vars

\* the descriptions example_classification and test_classification classify
\* "Clinical research and pharmaceutical development focusing on cancer therapeutics and immunology"
DescriptionBioTech ==
    <<"C","l","i","n","i","c","a","l"," ","r","e","s","e","a","r","c",
      "h"," ","a","n","d"," ","p","h","a","r","m","a","c","e","u","t",
      "i","c","a","l"," ","d","e","v","e","l","o","p","m","e","n","t",
      " ","f","o","c","u","s","i","n","g"," ","o","n"," ","c","a","n",
      "c","e","r"," ","t","h","e","r","a","p","e","u","t","i","c","s",
      " ","a","n","d"," ","i","m","m","u","n","o","l","o","g","y">>

\* "Patent licensing and intellectual property brokerage services for technology transfer"
DescriptionIPSolutions ==
    <<"P","a","t","e","n","t"," ","l","i","c","e","n","s","i","n","g",
      " ","a","n","d"," ","i","n","t","e","l","l","e","c","t","u","a",
      "l"," ","p","r","o","p","e","r","t","y"," ","b","r","o","k","e",
      "r","a","g","e"," ","s","e","r","v","i","c","e","s"," ","f","o",
      "r"," ","t","e","c","h","n","o","l","o","g","y"," ","t","r","a",
      "n","s","f","e","r">>

\* "Import and export of consumer goods and electronics"
DescriptionGeneralTrading ==
    <<"I","m","p","o","r","t"," ","a","n","d"," ","e","x","p","o","r",
      "t"," ","o","f"," ","c","o","n","s","u","m","e","r"," ","g","o",
      "o","d","s"," ","a","n","d"," ","e","l","e","c","t","r","o","n",
      "i","c","s">>

ExampleDescriptions ==
    {DescriptionBioTech, DescriptionIPSolutions, DescriptionGeneralTrading}

\* the classifications of the examples, among those of short descriptions,
\* by an analyzer and by a mock classifier as constructed
NextExample ==
    \/ \E description \in ExampleDescriptions \cup ShortDescriptions :
           ClassifyIndustry(description)
    \/ \E description \in ExampleDescriptions \cup ShortDescriptions :
           MockClassifyIndustry(description)
    \/ Discard

SpecExample == InitDefault /\ [][NextExample]_vars

\* a call of scrape_hk_data with this outcome of webdriver.Chrome keeps the
\* WebDriver objects within the bounds
within_bounds(chrome) ==
    IF chrome
    THEN Len(webdrivers) < MaxDrivers
    ELSE IF driver = None THEN TRUE ELSE webdrivers[driver[2]] < MaxQuits

\* analyzer.scrape_hk_data()
ScrapeHkData(chrome) ==
    /\ call.op = "none"
    /\ within_bounds(chrome)
    /\ \E outcome \in {scrape_hk_data(driver, webdrivers, chrome)} :
          /\ driver' = outcome.driver
          /\ webdrivers' = outcome.webdrivers
          /\ call' = [op |-> "scrape_hk_data",
                      chrome |-> chrome,
                      steps |-> outcome.steps,
                      result |-> outcome.scraped_data]
    /\ UNCHANGED <<medical_keywords, patent_keywords, companies_data,
                   medical_companies, patent_companies, stemmer, prs,
                   nltk_data, first>>

\* analyzer.run_complete_analysis(), step by step.  The frame of the call
\* holds its local variables, the errors logged inside the phases, and the
\* phases called so far, each with what it was given and what it returned.

\* Step 1: companies_data = self.scrape_hk_data()
Phase1DataCollection(chrome) ==
    /\ call.op = "none"
    /\ within_bounds(chrome)
    /\ \E outcome \in {scrape_hk_data(driver, webdrivers, chrome)} :
          /\ driver' = outcome.driver
          /\ webdrivers' = outcome.webdrivers
          /\ call' = [op |-> "run_complete_analysis",
                      pc |-> "Phase 2",
                      companies_data |-> outcome.scraped_data,
                      logged |-> outcome.logged,
                      phases |-> <<[phase |-> "scrape_hk_data",
                                    result |-> outcome.scraped_data]>>]
    /\ UNCHANGED <<medical_keywords, patent_keywords, companies_data,
                   medical_companies, patent_companies, stemmer, prs,
                   nltk_data, first>>

\* Step 2 that analyzes the analyzer's companies_data field in place of the
\* collected data
Phase2MarketGapAnalysisOfField ==
    /\ call.op = "run_complete_analysis"
    /\ call.pc = "Phase 2"
    /\ \E gap \in {analyze_market_gaps(medical_keywords, patent_keywords,
                                       nltk_data, companies_data)} :
          call' = [op |-> "run_complete_analysis",
                   pc |-> "Phase 3",
                   companies_data |-> call.companies_data,
                   gap_analysis |-> gap.analysis,
                   logged |-> call.logged,
                   phases |-> Append(call.phases,
                                     [phase |-> "analyze_market_gaps",
                                      companies_data |-> companies_data,
                                      result |-> gap.analysis])]
    /\ UNCHANGED <<analyzer, webdrivers, prs, nltk_data, first>>

\* Step 2: gap_analysis = self.analyze_market_gaps(companies_data)
Phase2MarketGapAnalysis ==
    /\ call.op = "run_complete_analysis"
    /\ call.pc = "Phase 2"
    /\ \E gap \in {analyze_market_gaps(medical_keywords, patent_keywords,
                                       nltk_data, call.companies_data)} :
          call' = [op |-> "run_complete_analysis",
                   pc |-> "Phase 3",
                   companies_data |-> gap.companies_data,
                   gap_analysis |-> gap.analysis,
                   logged |-> call.logged,
                   phases |-> Append(call.phases,
                                     [phase |-> "analyze_market_gaps",
                                      companies_data |-> call.companies_data,
                                      result |-> gap.analysis])]
    /\ UNCHANGED <<analyzer, webdrivers, prs, nltk_data, first>>

\* Step 3: summary_report = self.generate_report(companies_data, gap_analysis)
Phase3ReportGeneration(writer) ==
    /\ call.op = "run_complete_analysis"
    /\ call.pc = "Phase 3"
    /\ \E report \in {generate_report(call.companies_data, call.gap_analysis,
                                      writer)} :
          call' = [op |-> "run_complete_analysis",
                   pc |-> "Step 4",
                   companies_data |-> report.companies_data,
                   gap_analysis |-> call.gap_analysis,
                   summary_report |-> report.summary_report,
                   logged |-> call.logged \o
                                  (IF writer THEN <<>>
                                   ELSE <<"Error creating Excel export">>),
                   phases |-> Append(call.phases,
                                     [phase |-> "generate_report",
                                      companies_data |-> call.companies_data,
                                      analysis |-> call.gap_analysis,
                                      result |-> report.summary_report])]
    /\ UNCHANGED <<analyzer, webdrivers, prs, nltk_data, first>>

\* Step 4 that counts the sources in place of their records
Step4CompileResultsCountingSources ==
    /\ call.op = "run_complete_analysis"
    /\ call.pc = "Step 4"
    /\ call' = [op |-> "run_complete_analysis",
                pc |-> "returned",
                logged |-> call.logged,
                phases |-> call.phases,
                result |->
                    [companies_data |-> call.companies_data,
                     gap_analysis |-> call.gap_analysis,
                     summary_report |-> call.summary_report,
                     completion_time |-> "datetime.now().isoformat()",
                     total_companies_analyzed |->
                         Cardinality(DOMAIN call.companies_data)]]
    /\ UNCHANGED <<analyzer, webdrivers, prs, nltk_data, first>>

\* Step 4: the results are compiled and returned
Step4CompileResults ==
    /\ call.op = "run_complete_analysis"
    /\ call.pc = "Step 4"
    /\ call' = [op |-> "run_complete_analysis",
                pc |-> "returned",
                logged |-> call.logged,
                phases |-> call.phases,
                result |->
                    [companies_data |-> call.companies_data,
                     gap_analysis |-> call.gap_analysis,
                     summary_report |-> call.summary_report,
                     completion_time |-> "datetime.now().isoformat()",
                     total_companies_analyzed |->
                         Len(flatten_from(call.companies_data, 1))]]
    /\ UNCHANGED <<analyzer, webdrivers, prs, nltk_data, first>>

\* calls of scrape_hk_data and of run_complete_analysis on one analyzer, one
\* after the other, with webdriver.Chrome starting or not at each call
NextRun ==
    \/ \E chrome \in BOOLEAN : ScrapeHkData(chrome)
    \/ \E chrome \in BOOLEAN : Phase1DataCollection(chrome)
    \/ Phase2MarketGapAnalysis
    \/ \E writer \in BOOLEAN : Phase3ReportGeneration(writer)
    \/ Step4CompileResults
    \/ (call.op = "run_complete_analysis" => call.pc = "returned") /\ Discard

SpecRun == InitDefault /\ [][NextRun]_vars

\* the results handed to the generator: the listings empty or of one company,
\* on either of two dates
PresentationResults ==
    {[summary |->
          [analysis_date |-> analysis_date,
           total_companies_analyzed |-> Len(medical_rd) + Len(patent_brokerage),
           medical_rd_companies |-> Len(medical_rd),
           patent_brokerage_companies |-> Len(patent_brokerage)],
      classification_framework |-> "classification_framework",
      company_listings |->
          [medical_rd |-> medical_rd, patent_brokerage |-> patent_brokerage],
      market_analysis |-> "market_analysis",
      key_findings |-> "key_findings"] :
        medical_rd \in
            {<<>>, <<[name |-> "BioMed Innovations HK",
                      business_nature |-> "Biotechnology research",
                      address |-> "Science Park, Shatin",
                      confidence_score |-> divide(3, 4),
                      isic_code |-> "7210", hsic_code |-> "N/A"]>>},
        patent_brokerage \in
            {<<>>, <<[name |-> "Patent Licensing Specialists",
                      business_nature |-> "Patent licensing",
                      address |-> "Central, Hong Kong",
                      confidence_score |-> divide(2, 5),
                      isic_code |-> "6619", hsic_code |-> "N/A"]>>},
        analysis_date \in
            {<<"2","0","2","4","-","0","1","-","1","5","T","0","9",":","3","0",
               ":","0","0">>,
             <<"2","0","2","5","-","1","2","-","0","1">>}}

\* the directory charts: absent, or holding some of the two chart files
ChartDirectories ==
    {[exists |-> FALSE, files |-> {}]}
        \cup {[exists |-> TRUE, files |-> files] :
                 files \in SUBSET {"rd_expenditure_comparison.png",
                                   "patent_trends.png"}}

\* generator.generate_presentation(results) on the one generator of the model
GeneratePresentation(results, chart_dir) ==
    /\ call.op = "none"
    /\ Len(prs) < MaxSlides
    /\ prs' = generate_presentation(prs, results, chart_dir)
    /\ call' = [op |-> "generate_presentation",
                results |-> results,
                chart_dir |-> chart_dir,
                saved |-> prs']
    /\ UNCHANGED <<analyzer, webdrivers, nltk_data, first>>

\* generate_ppt_from_json(json_file): a generator of its own is constructed
\* and used once
GeneratePptFromJson(results, chart_dir) ==
    /\ call.op = "none"
    /\ call' = [op |-> "generate_ppt_from_json",
                results |-> results,
                chart_dir |-> chart_dir,
                saved |-> generate_presentation(<<>>, results, chart_dir)]
    /\ UNCHANGED <<analyzer, webdrivers, prs, nltk_data, first>>

NextPresentation ==
    \/ \E results \in PresentationResults, chart_dir \in ChartDirectories :
           GeneratePresentation(results, chart_dir)
    \/ \E results \in PresentationResults, chart_dir \in ChartDirectories :
           GeneratePptFromJson(results, chart_dir)
    \/ Discard

SpecPresentation == InitDefault /\ [][NextPresentation]_vars



---------------------------------------------------------------------------
(* Properties                                                              *)

Labels == {"medical_rd", "patent_brokerage", "other", "unknown"}

\* a classification (by either classifier) has just returned
Classifying == call.op \in {"classify_industry", "mock_classify_industry"}

\* ... of a description that is neither empty nor None
ClassifyingText == Classifying /\ call.description \notin {<<>>, None}

\* the threshold of the classifier that has just returned
threshold_of(op) == IF op = "classify_industry" THEN THRESHOLD ELSE MOCK_THRESHOLD

in_unit_interval(x) == x[2] > 0 /\ 0 <= x[1] /\ x[1] <= x[2]

\* C1 as stated: on the scores m, p of a non-empty description the result is
\* (medical_rd, m) if m > p and m > THRESHOLD, else (patent_brokerage, p) if
\* p > THRESHOLD, whether or not p exceeds m, else (other, max(m, p)).
C1_AsStated ==
    ClassifyingText =>
        LET m == call.result.medical_score
            p == call.result.patent_score
            t == threshold_of(call.op)
        IN  <<call.result.label, call.result.confidence>> =
                IF greater(m, p) /\ greater(m, t) THEN <<"medical_rd", m>>
                ELSE IF greater(p, t) THEN <<"patent_brokerage", p>>
                ELSE <<"other", max(m, p)>>

\* C1 amended: the label is medical_rd exactly when m > p and m > THRESHOLD,
\* patent_brokerage exactly when p > m and p > THRESHOLD, and other in every
\* other case; the confidence is m, p and max(m, p) respectively.
C1_DecisionRule ==
    ClassifyingText =>
        LET m == call.result.medical_score
            p == call.result.patent_score
            t == threshold_of(call.op)
            medical == greater(m, p) /\ greater(m, t)
            patent == greater(p, m) /\ greater(p, t)
        IN  /\ call.result.label = "medical_rd" <=> medical
            /\ call.result.label = "patent_brokerage" <=> patent
            /\ call.result.label = "other" <=> ~medical /\ ~patent
            /\ medical => call.result.confidence = m
            /\ patent => call.result.confidence = p
            /\ ~medical /\ ~patent => call.result.confidence = max(m, p)

\* the two scores are equal and above the threshold, and the label is other
C1_Witness ==
    /\ call.op = "classify_industry"
    /\ call.description \notin {<<>>, None}
    /\ call.result.medical_score = call.result.patent_score
    /\ greater(call.result.patent_score, THRESHOLD)
    /\ call.result.label = "other"

\* C2: the confidence either classifier returns, the two scores behind it,
\* every score the keyword scorer returns and every confidence the analysis
\* run attaches to a record are numbers in [0, 1].
C2_ScoresInUnitInterval ==
    /\ Classifying =>
           /\ in_unit_interval(call.result.confidence)
           /\ in_unit_interval(call.result.medical_score)
           /\ in_unit_interval(call.result.patent_score)
    /\ call.op = "_calculate_keyword_score" => in_unit_interval(call.result)
    /\ call.op = "analyze_market_gaps" =>
           \A source \in DOMAIN call.result.companies_data :
               \A i \in 1..Len(call.result.companies_data[source]) :
                   in_unit_interval(
                       call.result.companies_data[source][i].confidence)

\* the scorer returns 1 for two tokens that each match several keywords
C2_Witness ==
    /\ call.op = "_calculate_keyword_score"
    /\ call.keywords = DefaultPatentKeywords
    /\ Len(call.processed_text) = 2
    /\ \A i \in 1..2 : call.processed_text[i] = <<"p","a","t","e","n","t">>
    /\ call.result = divide(1, 1)

\* C3: classify_industry of the empty string or of None returns exactly
\* ("unknown", 0.0), and runs neither the normalizer nor the scorer.
C3_EmptyIsUnknown ==
    Classifying /\ call.description \in {<<>>, None} =>
        /\ call.result.label = "unknown"
        /\ call.result.confidence = Zero
        /\ call.result.helpers = <<>>

\* the analyzer has classified the empty string
C3_Witness ==
    /\ call.op = "classify_industry"
    /\ call.description = <<>>
    /\ call.result.label = "unknown"

\* C4 as stated: a description whose medical score equals the threshold
\* exactly is labelled other.
C4_AsStated ==
    ClassifyingText /\ call.result.medical_score = threshold_of(call.op) =>
        call.result.label = "other"

\* C4 amended: a description whose medical score equals the threshold exactly
\* is never labelled medical_rd; it is labelled patent_brokerage when its
\* patent score exceeds the threshold and other when it does not.
C4_ThresholdIsStrict ==
    ClassifyingText /\ call.result.medical_score = threshold_of(call.op) =>
        call.result.label =
            IF greater(call.result.patent_score, threshold_of(call.op))
            THEN "patent_brokerage"
            ELSE "other"

\* the analyzer's medical score is exactly 0.3, above the patent score, and
\* the label is other
C4_Witness ==
    /\ call.op = "classify_industry"
    /\ call.description \notin {<<>>, None}
    /\ call.result.medical_score = THRESHOLD
    /\ greater(call.result.medical_score, call.result.patent_score)
    /\ call.result.label = "other"

\* C5: the confidence classify returns is max(medical_score, patent_score),
\* whatever the label, and 0.0 for an empty description.
C5_ConfidenceIsMax ==
    Classifying =>
        call.result.confidence =
            IF call.description \in {<<>>, None} THEN Zero
            ELSE max(call.result.medical_score, call.result.patent_score)

\* a target label is returned while both scores are positive
C5_Witness ==
    /\ call.op = "classify_industry"
    /\ call.result.label = "medical_rd"
    /\ greater(call.result.patent_score, Zero)

\* C6: the label is one of medical_rd, patent_brokerage, other, unknown, and
\* it is unknown exactly when the description is empty or None.
C6_LabelDomain ==
    Classifying =>
        /\ call.result.label \in Labels
        /\ call.result.label = "unknown" <=> call.description \in {<<>>, None}

\* a description that normalizes to no token (a stop-word) is labelled other
C6_Witness ==
    /\ call.op = "classify_industry"
    /\ nltk_data
    /\ call.description = WordAnd
    /\ call.result.label = "other"

\* C7 as stated: the analysis run gives a record whose description and
\* business_nature are both missing or both empty the label unknown and the
\* confidence 0.0.
C7_AsStated ==
    call.op = "analyze_market_gaps" =>
        \A source \in DOMAIN call.argument :
            \A i \in 1..Len(call.argument[source]) :
                /\ get(call.argument[source][i], "description", <<>>) = <<>>
                /\ get(call.argument[source][i], "business_nature", <<>>) = <<>>
                => /\ call.result.companies_data[source][i].classification
                          = "unknown"
                   /\ call.result.companies_data[source][i].confidence = Zero

\* C8: the scorer's result on a non-empty token sequence is the number of
\* tokens that hold, or are held by, at least one stemmed keyword, each token
\* counted once, divided by the number of tokens.
C8_ScoreIsMatchedTokenRatio ==
    call.op = "_calculate_keyword_score" /\ call.processed_text # <<>> =>
        call.result =
            divide(Cardinality(
                       {i \in 1..Len(call.processed_text) :
                           \E j \in 1..Len(call.keywords) :
                               \E keyword \in {stem(lower(call.keywords[j]))} :
                                   \/ contains(call.processed_text[i], keyword)
                                   \/ contains(keyword, call.processed_text[i])}),
                   Len(call.processed_text))

\* one token that several keywords hold, and one that none does: score 1/2
C8_Witness ==
    /\ call.op = "_calculate_keyword_score"
    /\ call.keywords = DefaultPatentKeywords
    /\ call.processed_text = << <<"p","a","t","e","n","t">>, <<"g","o","o","d">> >>
    /\ call.result = divide(1, 2)

C10_Idempotent ==
    first.status = "recorded" =>
        /\ analyzer = first.analyzer
        /\ call.op = "classify_industry" /\ call.description = first.description
           => call.result = first.result

\* the first description is classified again after another one
C10_Witness ==
    /\ first.status = "recorded"
    /\ first.others
    /\ call.op = "classify_industry"
    /\ call.description = first.description
    /\ call.result.label = "medical_rd"
\* the reference normalizer: lower-case, delete what is neither a letter nor
\* a space, split, drop stop-words and tokens of at most two characters, stem
reference_normalize(text) ==
    LET is_kept_char(c) == c \in Letters \/ c = " "
        is_kept_token(token) == token \notin stop_words /\ Len(token) > 2
        kept == SelectSeq(split(SelectSeq(lower(text), is_kept_char)),
                          is_kept_token)
    IN  [i \in 1..Len(kept) |-> stem(kept[i])]

\* C11 as stated: for every text, the normalizer returns what the reference
\* returns: the stems, in order, of the tokens of the lower-cased text with
\* every character that is neither a letter nor whitespace deleted, without
\* the stop-words and the tokens of at most two characters.
C11_AsStated ==
    call.op = "_preprocess_text" => call.result = reference_normalize(call.text)

\* the tokens of a text, by whitespace or by the tokenizer
input_tokens(text) ==
    {split(text)[i] : i \in 1..Len(split(text))}
        \cup {word_tokenize(text)[i] : i \in 1..Len(word_tokenize(text))}

\* C12 as stated: every token the normalizer returns is the stem of a token
\* of the text that is purely alphabetic, longer than two characters and not
\* a stop-word, and a text without a letter yields no token.
C12_AsStated ==
    call.op = "_preprocess_text" =>
        /\ \A i \in 1..Len(call.result) :
               \E token \in input_tokens(call.text) :
                   /\ isalpha(token)
                   /\ Len(token) > 2
                   /\ token \notin stop_words
                   /\ call.result[i] = stem(token)
        /\ (\A i \in 1..Len(call.text) : call.text[i] \notin Letters)
               => call.result = <<>>
\* the sum of the counts of a mapping from keys to numbers
RECURSIVE total(_)
total(counts) ==
    IF DOMAIN counts = {} THEN 0
    ELSE LET key == CHOOSE k \in DOMAIN counts : TRUE
         IN  counts[key] + total([k \in DOMAIN counts \ {key} |-> counts[k]])

\* C13: the industry distribution of a sequence of classified records has
\* exactly the labels some record carries as keys, maps each to the number of
\* records carrying it, records of one name counted one by one, and its
\* counts sum to the number of records.
C13_IndustryDistribution ==
    call.op = "_analyze_industry_distribution" =>
        /\ DOMAIN call.result =
               {call.companies[i].classification : i \in 1..Len(call.companies)}
        /\ \A label \in DOMAIN call.result :
               call.result[label] =
                   Cardinality({i \in 1..Len(call.companies) :
                                   call.companies[i].classification = label})
        /\ total(call.result) = Len(call.companies)

\* records of one name labelled medical_rd, medical_rd, patent_brokerage give
\* {medical_rd: 2, patent_brokerage: 1}
C13_Witness ==
    /\ call.op = "_analyze_industry_distribution"
    /\ Len(call.companies) = 3
    /\ \A i \in 1..3 : call.companies[i].name = "Acme"
    /\ call.companies[1].classification = "medical_rd"
    /\ call.companies[2].classification = "medical_rd"
    /\ call.companies[3].classification = "patent_brokerage"
    /\ DOMAIN call.result = {"medical_rd", "patent_brokerage"}
    /\ call.result["medical_rd"] = 2
    /\ call.result["patent_brokerage"] = 1

\* C14: the geographical distribution of a sequence of classified records
\* maps each location some record has ("Unknown" for a record without one)
\* to a mapping from label to the number of records with that location and
\* label, and for every label the counts over all locations sum to the
\* label's count in the industry distribution.
C14_GeographicalDistribution ==
    call.op = "_analyze_geographical_distribution" =>
        LET location_of(i) == get(call.companies[i], "location", "Unknown")
            records == 1..Len(call.companies)
            industry == analyze_industry_distribution(call.companies)
        IN  /\ DOMAIN call.result = {location_of(i) : i \in records}
            /\ \A location \in DOMAIN call.result :
                   /\ DOMAIN call.result[location] =
                          {call.companies[i].classification :
                              i \in {j \in records : location_of(j) = location}}
                   /\ \A label \in DOMAIN call.result[location] :
                          call.result[location][label] =
                              Cardinality(
                                  {i \in records :
                                      /\ location_of(i) = location
                                      /\ call.companies[i].classification = label})
            /\ \A label \in DOMAIN industry :
                   industry[label] =
                       total([location \in DOMAIN call.result |->
                                 get(call.result[location], label, 0)])

\* two records without a location and one with, two labels at "Unknown"
C14_Witness ==
    /\ call.op = "_analyze_geographical_distribution"
    /\ Len(call.companies) = 3
    /\ DOMAIN call.result = {"Unknown", "Shatin"}
    /\ DOMAIN call.result["Unknown"] = {"medical_rd", "other"}
    /\ call.result["Shatin"]["medical_rd"] = 1
\* C15 as stated: over analyze_market_gaps and over run_complete_analysis,
\* every field a record had keeps its value and the only fields a record
\* gains are its label and its confidence.
C15_AsStated ==
    call.op \in {"analyze_market_gaps", "analyze_market_gaps again",
                 "run_complete_analysis"} =>
        \A source \in DOMAIN call.argument :
            \A i \in 1..Len(call.argument[source]) :
                LET before == call.argument[source][i]
                    after == call.result.companies_data[source][i]
                    result_fields == {"classification", "confidence"}
                IN  /\ \A field \in DOMAIN before \ result_fields :
                           field \in DOMAIN after /\ after[field] = before[field]
                    /\ DOMAIN after \subseteq DOMAIN before \cup result_fields

\* C16: a second analyze_market_gaps on the records the first one classified
\* returns the industry and geographical distributions the first returned,
\* which count every record once, and leaves the records as the first run
\* left them and the analyzer as it was.
C16_RecomputedFromScratch ==
    call.op = "analyze_market_gaps again" =>
        /\ call.result.analysis.industry_counts = call.earlier.industry_counts
        /\ call.result.analysis.geographical_distribution =
               call.earlier.geographical_distribution
        /\ total(call.result.analysis.industry_counts) =
               Len(flatten_from(call.argument, 1))
        /\ call.result.companies_data = call.argument
        /\ analyzer = call.before

\* a second run over two records, one per source, of different labels
C16_Witness ==
    /\ call.op = "analyze_market_gaps again"
    /\ Len(flatten_from(call.argument, 1)) = 2
    /\ DOMAIN call.result.analysis.industry_counts = {"medical_rd", "other"}
    /\ call.result.analysis.industry_counts["medical_rd"] = 1
\* C17: whatever the order in which the records of a collection were
\* classified, once all are classified each record has the label and the
\* confidence the sequential run gives it, and the distributions computed
\* then are those of the sequential run.
C17_OrderIndependent ==
    call.op = "classified" =>
        \A sequential \in {analyze_market_gaps(medical_keywords, patent_keywords,
                                               nltk_data, call.argument)} :
            /\ call.records = flatten_from(sequential.companies_data, 1)
            /\ call.result.industry_counts = sequential.analysis.industry_counts
            /\ call.result.geographical_distribution =
                   sequential.analysis.geographical_distribution

\* two records of different labels, the second classified first
C17_Witness ==
    /\ call.op = "classified"
    /\ call.order = <<2, 1>>
    /\ call.records[1].classification = "medical_rd"
    /\ call.records[2].classification = "other"
    /\ call.result.industry_counts["medical_rd"] = 1
\* C18 as stated: classify_industry of a value that is neither a string nor
\* None, a false one such as 0, False or [] included, returns no result: it
\* raises an error, which reaches the caller.
C18_AsStated ==
    call.op = "classify_industry" /\ call.description \in NonText =>
        "raised" \in DOMAIN call.result
\* the description of the last pair of calls matches no keyword of either
\* category: for the analyzer, no token of it is in a stemmed keyword or
\* holds one; for the mock, no keyword is in it
description_is_neutral ==
    IF call.op = "classify_industry with keyword"
    THEN \A tokens \in {preprocess_text(lower(call.description), nltk_data)} :
             \A keywords \in {stem_keywords(medical_keywords \o patent_keywords)} :
                 \A i \in 1..Len(tokens), j \in 1..Len(keywords) :
                     /\ ~contains(tokens[i], keywords[j])
                     /\ ~contains(keywords[j], tokens[i])
    ELSE \A keywords \in {MockMedicalKeywords \o MockPatentKeywords} :
             \A j \in 1..Len(keywords) :
                 ~contains(lower(call.description), keywords[j])

\* the score of the category of the last pair of calls, in a result
category_score(result) ==
    IF call.category = "medical" THEN result.medical_score
    ELSE result.patent_score

\* C19: when a keyword phrase of a category is added to a description that
\* matches no keyword of either category, the category's score of the longer
\* description is not smaller than that of the description itself.
C19_Monotone ==
    /\ call.op \in {"classify_industry with keyword",
                    "mock_classify_industry with keyword"}
    /\ description_is_neutral
    => ~greater(category_score(call.before), category_score(call.after))

\* a phrase of which one word matches is added to a neutral description:
\* the analyzer's medical score goes from 0 to 1/3
C19_Witness ==
    /\ call.op = "classify_industry with keyword"
    /\ description_is_neutral
    /\ call.category = "medical"
    /\ call.description = WordGoods
    /\ call.before.medical_score = Zero
    /\ call.after.medical_score = divide(1, 3)
\* C20: the analyzer with its configured keyword lists and the mock
\* classifier both give the description "Clinical research and
\* pharmaceutical development focusing on cancer therapeutics and
\* immunology" the label medical_rd with a confidence above 0.1.
C20_BioTechIsMedical ==
    Classifying /\ call.description = DescriptionBioTech =>
        /\ call.result.label = "medical_rd"
        /\ greater(call.result.confidence, divide(1, 10))

\* the analyzer has classified the description from six matching tokens of
\* eight
C20_Witness ==
    /\ call.op = "classify_industry"
    /\ nltk_data
    /\ call.description = DescriptionBioTech
    /\ call.result.label = "medical_rd"
    /\ call.result.confidence = divide(6, 8)

\* the mock classifier has classified the description from three of its
\* ten medical keywords
C20_WitnessMock ==
    /\ call.op = "mock_classify_industry"
    /\ call.description = DescriptionBioTech
    /\ call.result.label = "medical_rd"
    /\ call.result.confidence = divide(3, 10)

\* C21: the analyzer with its configured keyword lists and the mock
\* classifier both give the description "Patent licensing and intellectual
\* property brokerage services for technology transfer" the label
\* patent_brokerage with a confidence above 0.1.
C21_IPSolutionsIsPatent ==
    Classifying /\ call.description = DescriptionIPSolutions =>
        /\ call.result.label = "patent_brokerage"
        /\ greater(call.result.confidence, divide(1, 10))

\* the analyzer has classified the description from eight tokens, six of
\* which match a patent keyword and one (technolog) a medical keyword
C21_Witness ==
    /\ call.op = "classify_industry"
    /\ nltk_data
    /\ call.description = DescriptionIPSolutions
    /\ call.result.label = "patent_brokerage"
    /\ call.result.medical_score = divide(1, 8)
    /\ call.result.confidence = divide(6, 8)

\* C22 as stated: the analyzer's rule and the mock classifier's rule derive
\* the same label from every pair of scores either of them has computed.
C22_AsStated ==
    ClassifyingText =>
        classify_scores(call.result.medical_score,
                        call.result.patent_score).label =
            mock_classify_scores(call.result.medical_score,
                                 call.result.patent_score).label

\* run_complete_analysis is under way or has returned
Running == call.op = "run_complete_analysis"

\* run_complete_analysis has returned
Returned == Running /\ call.pc = "returned"

\* the records of after are those of before, source by source and in order,
\* each with every field it had
same_records(before, after) ==
    /\ DOMAIN after = DOMAIN before
    /\ \A source \in DOMAIN before :
          /\ Len(after[source]) = Len(before[source])
          /\ \A i \in 1..Len(before[source]) :
                /\ DOMAIN before[source][i] \subseteq DOMAIN after[source][i]
                /\ \A field \in DOMAIN before[source][i] :
                      after[source][i][field] = before[source][i][field]

\* C24: at every point of run_complete_analysis the phases called so far are
\* the first of data collection, market-gap analysis and report generation,
\* in that order and once each; the analysis is given exactly what the
\* collection returned, and the report the same records (as the analysis
\* left them) and the analysis returned; the call returns after all three,
\* and what it returns has either the five result keys or the key "error"
\* alone.
C24_PhasesInOrder ==
    Running =>
        /\ Len(call.phases) <= 3
        /\ \A i \in 1..Len(call.phases) :
              call.phases[i].phase =
                  <<"scrape_hk_data", "analyze_market_gaps", "generate_report">>[i]
        /\ Len(call.phases) >= 2 =>
              call.phases[2].companies_data = call.phases[1].result
        /\ Len(call.phases) >= 3 =>
              /\ same_records(call.phases[1].result, call.phases[3].companies_data)
              /\ call.phases[3].analysis = call.phases[2].result
        /\ call.pc = "returned" =>
              /\ Len(call.phases) = 3
              /\ DOMAIN call.result \in
                     {{"companies_data", "gap_analysis", "summary_report",
                       "completion_time", "total_companies_analyzed"},
                      {"error"}}
              /\ "error" \notin DOMAIN call.result =>
                    /\ same_records(call.phases[1].result, call.result.companies_data)
                    /\ call.result.gap_analysis = call.phases[2].result
                    /\ call.result.summary_report = call.phases[3].result

\* a run whose WebDriver started has returned its results on the 32
\* collected records
C24_Witness ==
    /\ Returned
    /\ Len(call.phases) = 3
    /\ Len(flatten_from(call.phases[1].result, 1)) = 32
    /\ call.result.total_companies_analyzed = 32

\* C25: what scrape_hk_data returns has exactly the keys companies_registry,
\* hktdc_directory, science_park and patent_data, each bound to a list; when
\* WebDriver initialisation failed, no collection step was performed and
\* every one of the lists is empty.
C25_FourSourceLists ==
    call.op = "scrape_hk_data" =>
        /\ DOMAIN call.result =
               {"companies_registry", "hktdc_directory", "science_park",
                "patent_data"}
        /\ \A source \in DOMAIN call.result :
              DOMAIN call.result[source] = 1..Len(call.result[source])
        /\ ~call.chrome =>
              /\ call.steps = <<>>
              /\ \A source \in DOMAIN call.result : call.result[source] = <<>>

\* scrape_hk_data has returned after a failed WebDriver initialisation, on
\* an analyzer that had collected before
C25_Witness ==
    /\ call.op = "scrape_hk_data"
    /\ ~call.chrome
    /\ driver # None
    /\ call.result.hktdc_directory = <<>>

\* scrape_hk_data has returned the 24, 3, 3 and 2 records of a collection
C25_WitnessCollected ==
    /\ call.op = "scrape_hk_data"
    /\ call.chrome
    /\ Len(call.steps) = 4
    /\ Len(call.result.hktdc_directory) = 24
    /\ Len(call.result.science_park) = 3
    /\ Len(call.result.patent_data) = 3
    /\ Len(call.result.companies_registry) = 2

\* C26: a classification returns a target label only when that category's
\* score is strictly greater than the other category's score and than the
\* threshold; when the two scores are equal the label is other and the
\* confidence their common value, whether or not they exceed the threshold.
C26_StrictDominance ==
    ClassifyingText =>
        /\ call.result.label = "medical_rd" =>
              /\ greater(call.result.medical_score, call.result.patent_score)
              /\ greater(call.result.medical_score, threshold_of(call.op))
        /\ call.result.label = "patent_brokerage" =>
              /\ greater(call.result.patent_score, call.result.medical_score)
              /\ greater(call.result.patent_score, threshold_of(call.op))
        /\ call.result.medical_score = call.result.patent_score =>
              /\ call.result.label = "other"
              /\ call.result.confidence = call.result.medical_score

\* the analyzer has classified a description whose two scores are equal and
\* above the threshold
C26_Witness ==
    /\ call.op = "classify_industry"
    /\ call.description \notin {<<>>, None}
    /\ call.result.medical_score = call.result.patent_score
    /\ greater(call.result.medical_score, THRESHOLD)
    /\ call.result.label = "other"

\* C27 as stated: every WebDriver created so far has been quit exactly once:
\* by the call of scrape_hk_data that created it, before that call returned,
\* and by no call since.
C27_AsStated ==
    \A i \in 1..Len(webdrivers) : webdrivers[i] = 1

\* C28 as stated: a result of run_complete_analysis without the key "error"
\* is returned only when no phase has logged an error of its own.
C28_AsStated ==
    Returned /\ "error" \notin DOMAIN call.result => call.logged = <<>>

\* C29: in a result of run_complete_analysis without the key "error",
\* total_companies_analyzed is the number of records of companies_data over
\* all its sources and the sum of the counts of gap_analysis.industry_counts,
\* and every one of those records carries a classification and a confidence.
C29_TotalsAgree ==
    Returned /\ "error" \notin DOMAIN call.result =>
        /\ call.result.total_companies_analyzed =
               total([source \in DOMAIN call.result.companies_data |->
                         Len(call.result.companies_data[source])])
        /\ call.result.total_companies_analyzed =
               total(call.result.gap_analysis.industry_counts)
        /\ \A source \in DOMAIN call.result.companies_data :
              \A i \in 1..Len(call.result.companies_data[source]) :
                  {"classification", "confidence"} \subseteq
                      DOMAIN call.result.companies_data[source][i]

\* a run has returned the 32 collected records, classified under three
\* labels
C29_Witness ==
    /\ Returned
    /\ call.result.total_companies_analyzed = 32
    /\ DOMAIN call.result.gap_analysis.industry_counts =
           {"medical_rd", "patent_brokerage", "other"}
    /\ call.result.companies_data.science_park[1].classification = "other"

\* the titles of the slides of a deck, in order
titles(deck) == [i \in 1..Len(deck) |-> deck[i].title]

\* C30 as stated: the deck a call of generate_presentation saves holds, in
\* order, the title, executive-summary and classification-framework slides,
\* a listing slide for each non-empty listing of the results (medical_rd,
\* then patent_brokerage), the gap-analysis, opportunities and key-findings
\* slides, and a slide for each chart that exists; nothing else, whatever
\* the generator was used for before.
C30_AsStated ==
    call.op = "generate_presentation" =>
        titles(call.saved) =
            <<"Hong Kong Industry Analysis Framework", "Executive Summary",
              "Industry Classification Framework (PPT Framework)">>
            \o (IF call.results.company_listings.medical_rd # <<>>
                THEN <<"Medical R&D Companies Identified">> ELSE <<>>)
            \o (IF call.results.company_listings.patent_brokerage # <<>>
                THEN <<"Patent Brokerage Companies Identified">> ELSE <<>>)
            \o <<"Industry Gap Analysis",
                 "Development Opportunities & Recommendations",
                 "Key Findings & Critical Gaps">>
            \o (IF call.chart_dir.exists
                       /\ "rd_expenditure_comparison.png" \in call.chart_dir.files
                THEN <<"R&D Expenditure Comparison: Hong Kong vs Singapore">>
                ELSE <<>>)
            \o (IF call.chart_dir.exists
                       /\ "patent_trends.png" \in call.chart_dir.files
                THEN <<"Medical R&D Patent Filings & IP Services Growth">>
                ELSE <<>>)
=============================================================================
